---- MODULE Spec2Model ----
(***************************************************************************)
(* Recommendation engine of Project-Consumer-AI-Scraper.                   *)
(*                                                                         *)
(* recommendForUser resolves a user's lists, hydrates the consumed items,  *)
(* runs one aggregation per content type (sequel detection, then vector    *)
(* similarity for the remaining slots) and assembles the typed buckets and *)
(* the flattened list.  recommendById queries the vector index for the     *)
(* neighbours of one item and hydrates them from the repository.           *)
(*                                                                         *)
(* Titles are sequences of lower-case tokens (the words between the        *)
(* separators blank, '-' and ':'); scores are integers in units of         *)
(* 1/(100 * JaccardUnit) so that the comparisons of the sort are exact.    *)
(* Identifiers are strings, as the user lists and the vector index hold    *)
(* them.  The environment may make an external call fail; every failure it *)
(* injects is recorded in injected.                                        *)
(***************************************************************************)
EXTENDS Integers, Sequences, FiniteSets, TLC

(***************************************************************************)
(* Bounds of the model.                                                    *)
(***************************************************************************)
MaxTopK == 3
MaxListLen == 2
MaxFaults == 1

(***************************************************************************)
(* Program constants.                                                      *)
(***************************************************************************)
SequelQueryLimit == 5
PerItemSequelBreak == 3
TotalSequelCap == 10
SampleSize == 3

Types == <<"movie", "tvseries", "anime", "game">>
TypeSet == {Types[i] : i \in 1..Len(Types)}

(***************************************************************************)
(* Small sequence helpers (JavaScript array methods).                      *)
(***************************************************************************)
Range(s) == {s[i] : i \in 1..Len(s)}

Min(a, b) == IF a < b THEN a ELSE b

\* Array.prototype.slice(0, n) for n >= 0
Take(s, n) == SubSeq(s, 1, Min(n, Len(s)))

\* Array.prototype.filter: the elements of s that are in keep, in s's order
Filter(s, keep) == SelectSeq(s, LAMBDA x : x \in keep)

\* Array.prototype.flat() of an array of arrays
Flat(ss) ==
  LET F[i \in 0..Len(ss)] == IF i = 0 THEN <<>> ELSE F[i-1] \o ss[i]
  IN F[Len(ss)]

NoDup(s) == \A i, j \in 1..Len(s) : i # j => s[i] # s[j]

(***************************************************************************)
(* The repository: one collection per content type, in natural order.      *)
(* A document is stored either under an ObjectId (oid = TRUE) or under a   *)
(* plain string key; key is the string form of its _id.                    *)
(***************************************************************************)
Doc(k, o, t, a) == [key |-> k, oid |-> o, title |-> t, attrs |-> a]

NoAttrs == [x \in {} |-> <<>>]

MovieDocs ==
  << Doc("m1", TRUE, <<"rocky", "2">>,
         [genres |-> <<"drama", "sport">>, actors |-> <<"sly", "talia">>]),
     Doc("m3", TRUE, <<"rocky", "4">>,
         [genres |-> <<"drama">>, actors |-> <<"sly", "dolph">>]),
     Doc("m2", TRUE, <<"rocky", "3">>,
         [genres |-> <<"drama", "sport">>, actors |-> <<"sly", "talia">>,
          production_companies |-> <<"ua">>]),
     Doc("m4", TRUE, <<"alien">>, [genres |-> <<"scifi">>]),
     Doc("m5", FALSE, <<"up">>, NoAttrs) >>

TvDocs ==
  << Doc("t1", TRUE, <<"lost", "season", "1">>,
         [genres |-> <<"mystery">>, networks |-> <<"abc">>]),
     Doc("t2", TRUE, <<"lost", "season", "2">>,
         [genres |-> <<"mystery">>, networks |-> <<"abc">>]),
     Doc("t3", TRUE, <<"dark">>, [genres |-> <<"mystery">>]) >>

\* a long series: three titles nobody has consumed, stored first, and nine
\* more
SagaDocs ==
  << Doc("n1", TRUE, <<"saga", "1">>, [genres |-> <<"war">>]),
     Doc("n2", TRUE, <<"saga", "2">>, [genres |-> <<"fantasy">>, networks |-> <<"hbo">>]),
     Doc("n3", TRUE, <<"saga", "3">>, [genres |-> <<"fantasy">>]),
     Doc("c1", TRUE, <<"saga", "4">>, [genres |-> <<"fantasy">>, networks |-> <<"hbo">>]),
     Doc("c2", TRUE, <<"saga", "i">>, [genres |-> <<"fantasy">>, networks |-> <<"hbo">>]),
     Doc("c3", TRUE, <<"saga", "ii">>, [genres |-> <<"fantasy">>, networks |-> <<"hbo">>]),
     Doc("c4", TRUE, <<"saga", "iii">>, [genres |-> <<"fantasy">>, networks |-> <<"hbo">>]),
     Doc("c5", TRUE, <<"saga", "iv">>, [genres |-> <<"fantasy">>, networks |-> <<"hbo">>]),
     Doc("c6", TRUE, <<"saga", "v">>, [genres |-> <<"fantasy">>, networks |-> <<"hbo">>]),
     Doc("c7", TRUE, <<"saga", "x">>, [genres |-> <<"fantasy">>, networks |-> <<"hbo">>]),
     Doc("c8", TRUE, <<"saga", "returns">>,
         [genres |-> <<"fantasy">>, networks |-> <<"hbo">>]),
     Doc("c9", TRUE, <<"saga", "rises">>,
         [genres |-> <<"fantasy">>, networks |-> <<"hbo">>]) >>

AnimeDocs ==
  << Doc("a1", TRUE, <<"naruto">>, [genres |-> <<"action">>, studios |-> <<"pierrot">>]),
     Doc("a2", TRUE, <<"naruto", "shippuden">>,
         [genres |-> <<"action", "">>, studios |-> <<"pierrot">>]),
     Doc("a3", TRUE, <<"bleach">>, [genres |-> <<"action">>]) >>

GameDocs ==
  << Doc("g1", FALSE, <<"doom">>, [genres |-> <<"fps">>, platforms |-> <<"pc">>]),
     Doc("g2", TRUE, <<"doom", "ii">>, [genres |-> <<"fps">>, platforms |-> <<"pc">>]),
     Doc("g3", TRUE, <<"quake", "returns">>, [genres |-> <<"fps">>]) >>

Collection(type) ==
  CASE type = "movie" -> MovieDocs
    [] type = "tvseries" -> TvDocs \o SagaDocs
    [] type = "anime" -> AnimeDocs
    [] type = "game" -> GameDocs

\* keys that parse as a 24-hex ObjectId (new ObjectId(key) does not throw)
HexKeys == {"m1", "m2", "m3", "m4", "m5", "t1", "t2", "t3", "a1", "a2", "a3",
            "g2", "g3", "zz", "n1", "n2", "n3", "c1", "c2", "c3", "c4", "c5", "c6",
            "c7", "c8", "c9"}

IsObjectIdHex(k) == k \in HexKeys

\* _id.toString(): the string form of the key, whichever way it is stored
IdToString(doc) == doc.key

(***************************************************************************)
(* getCollectionName: the four content types name a collection; any other  *)
(* type raises.                                                            *)
(***************************************************************************)
KnownType(type) == type \in {"movie", "tvseries", "anime", "game"}

(***************************************************************************)
(* extractSeriesInfo on tokenised titles.  A numeral token is a run of     *)
(* digits or a word made only of the letters IVXLCDM (the patterns are     *)
(* case-insensitive).  Each pattern captures the shortest prefix that is   *)
(* followed by a separator and the pattern's token(s).                     *)
(***************************************************************************)
DigitTokens == {"1", "2", "3", "4"}
RomanTokens == {"i", "ii", "iii", "iv", "v", "x", "mild", "dim"}
SeasonWords == {"season", "part", "chapter"}
FranchiseWords == {"the", "a", "an", "origins", "returns", "rises", "forever", "begins"}

IsNumeral(tok) == tok \in DigitTokens \cup RomanTokens

\* the smallest of the indices (from 2 on) at which a pattern's token
\* stands, or 0 when there is none
FirstOf(hits) ==
  IF hits = {} THEN 0 ELSE CHOOSE i \in hits : \A j \in hits : i <= j

NumberMatch(title) == FirstOf({i \in 2..Len(title) : IsNumeral(title[i])})

SeasonMatch(title) ==
  FirstOf({i \in 2..Len(title) : /\ title[i] \in SeasonWords
                                 /\ i + 1 <= Len(title)
                                 /\ IsNumeral(title[i + 1])})

FranchiseMatch(title) == FirstOf({i \in 2..Len(title) : title[i] \in FranchiseWords})

\* title.length: the characters of the tokens and one separator between two
TitleLength(title) ==
  LET F[i \in 0..Len(title)] == IF i = 0 THEN 0 ELSE F[i-1] + Len(title[i])
  IN IF title = <<>> THEN 0 ELSE F[Len(title)] + Len(title) - 1

\* matches[0][1].trim(): a title that starts with a separator has an empty
\* first token, and a prefix of empty tokens only trims to the empty string
Trim(name) ==
  LET keep == {i \in 1..Len(name) : name[i] # ""}
  IN IF keep = {} THEN <<>>
     ELSE SubSeq(name, CHOOSE i \in keep : \A j \in keep : i <= j,
                       CHOOSE i \in keep : \A j \in keep : i >= j)

\* extractSeriesInfo taking the whole title from 4 characters on
extractSeriesInfo_AtLeastFour(title) ==
  LET found == <<NumberMatch(title), SeasonMatch(title), FranchiseMatch(title)>>
      matches == Filter(found, {m \in Range(found) : m # 0})
  IN IF Len(matches) > 0 THEN Trim(SubSeq(title, 1, matches[1] - 1))
     ELSE IF TitleLength(title) >= 4 THEN title
     ELSE <<>>

\* extractSeriesInfo trying the Season/Part/Chapter pattern first
extractSeriesInfo_SeasonFirst(title) ==
  LET found == <<SeasonMatch(title), NumberMatch(title), FranchiseMatch(title)>>
      matches == Filter(found, {m \in Range(found) : m # 0})
  IN IF Len(matches) > 0 THEN Trim(SubSeq(title, 1, matches[1] - 1))
     ELSE IF TitleLength(title) > 4 THEN title
     ELSE <<>>

\* the series name (<<>> stands for null / the empty string)
extractSeriesInfo(title) ==
  LET found == <<NumberMatch(title), SeasonMatch(title), FranchiseMatch(title)>>
      matches == Filter(found, {m \in Range(found) : m # 0})
  IN IF Len(matches) > 0 THEN Trim(SubSeq(title, 1, matches[1] - 1))
     ELSE IF TitleLength(title) > 4 THEN title
     ELSE <<>>

\* { title: { $regex: escapeRegex(name), $options: 'i' } }: the name occurs
\* in the title literally, as a contiguous run
TitleContains(title, name) ==
  \E i \in 1..(Len(title) - Len(name) + 1) : SubSeq(title, i, i + Len(name) - 1) = name

(***************************************************************************)
(* calculateMetadataSimilarity.  compareArrays is the Jaccard index of the *)
(* two arrays as sets, here in units of 1/JaccardUnit; a score is in units *)
(* of 1/(100 * JaccardUnit).                                               *)
(***************************************************************************)
JaccardUnit == 8 * 9 * 5 * 7

\* compareArrays counting the elements of the arrays instead of the sets
compareArrays_ByLength(array1, array2) ==
  IF Len(array1) = 0 \/ Len(array2) = 0 THEN 0
  ELSE LET intersectionCount ==
             Cardinality({i \in 1..Len(array1) : array1[i] \in Range(array2)})
           unionCount == Len(array1) + Len(array2) - intersectionCount
       IN IF unionCount = 0 THEN 0 ELSE (intersectionCount * JaccardUnit) \div unionCount

compareArrays(array1, array2) ==
  IF Len(array1) = 0 \/ Len(array2) = 0 THEN 0
  ELSE LET set1 == Range(array1)
           set2 == Range(array2)
           intersectionCount == Cardinality({x \in set1 : x \in set2})
           unionCount == Cardinality(set1) + Cardinality(set2) - intersectionCount
       IN IF unionCount = 0 THEN 0 ELSE (intersectionCount * JaccardUnit) \div unionCount

\* obj[fieldName] || [], and with a sub-field the truthy sub-field values
getFieldArrayValues(obj, fieldName, subField) ==
  LET array == IF fieldName \in DOMAIN obj.attrs THEN obj.attrs[fieldName] ELSE <<>>
  IN IF subField THEN Filter(array, {x \in Range(array) : x # ""}) ELSE array

\* the comparison with .slice(0, cut) on the first item's values only
Cmp_TruncatesFirstOnly(c1, c2, field, sub, cut) ==
  compareArrays(Take(getFieldArrayValues(c1, field, sub), cut),
                getFieldArrayValues(c2, field, sub))

Cmp(c1, c2, field, sub, cut) ==
  compareArrays(Take(getFieldArrayValues(c1, field, sub), cut),
                Take(getFieldArrayValues(c2, field, sub), cut))

NoCut == 1000 * 1000

\* score before the return: the base and the weighted comparisons
MetadataScore(content1, content2, contentType) ==
  LET base == 50 * JaccardUnit
  IN    CASE contentType = "anime" ->
               base + Cmp(content1, content2, "genres", TRUE, NoCut) * 15
                    + Cmp(content1, content2, "demographics", TRUE, NoCut) * 15
                    + Cmp(content1, content2, "themes", TRUE, NoCut) * 10
                    + Cmp(content1, content2, "studios", TRUE, NoCut) * 10
          [] contentType = "movie" ->
               base + Cmp(content1, content2, "genres", FALSE, NoCut) * 20
                    + Cmp(content1, content2, "production_companies", TRUE, NoCut) * 10
                    + Cmp(content1, content2, "actors", TRUE, 3) * 20
          [] contentType = "tvseries" ->
               base + Cmp(content1, content2, "genres", FALSE, NoCut) * 20
                    + Cmp(content1, content2, "networks", TRUE, NoCut) * 15
                    + Cmp(content1, content2, "production_companies", TRUE, NoCut) * 5
                    + Cmp(content1, content2, "actors", TRUE, 5) * 10
          [] contentType = "game" ->
               base + Cmp(content1, content2, "genres", FALSE, NoCut) * 20
                    + Cmp(content1, content2, "platforms", FALSE, NoCut) * 15
                    + Cmp(content1, content2, "developers", FALSE, NoCut) * 10
                    + Cmp(content1, content2, "publishers", FALSE, NoCut) * 5
          [] OTHER -> base

\* the score returned as it is, without Math.min(0.99, score)
calculateMetadataSimilarity_NoCap(content1, content2, contentType) ==
  MetadataScore(content1, content2, contentType)

\* return Math.min(0.99, score)
calculateMetadataSimilarity(content1, content2, contentType) ==
  Min(99 * JaccardUnit, MetadataScore(content1, content2, contentType))

\* the scored matches left in the order of the query
SortByScore_Unsorted(s) == s

\* Array.prototype.sort((a, b) => b.score - a.score): stable, descending
SortByScore(s) ==
  LET Insert(acc, x) ==
        LET k == Cardinality({i \in 1..Len(acc) : acc[i].score >= x.score})
        IN SubSeq(acc, 1, k) \o <<x>> \o SubSeq(acc, k + 1, Len(acc))
      F[i \in 0..Len(s)] == IF i = 0 THEN <<>> ELSE Insert(F[i-1], s[i])
  IN F[Len(s)]

(***************************************************************************)
(* The vector index: for each stored id the ranked neighbours of its       *)
(* vector with their similarity (in percent) and metadata type tag; a      *)
(* query by id returns the first topK of them.  The list of an id may      *)
(* hold the id itself, ids of other types, ids the repository does not     *)
(* hold and matches without a type tag.                                    *)
(***************************************************************************)
Match(i, sc, tg) == [id |-> i, score |-> sc, tag |-> tg]

Neighbours(id) ==
  CASE id = "m1" -> << Match("m1", 100, "movie"), Match("m4", 90, "movie"),
                       Match("t3", 85, "tvseries"), Match("m3", 80, "movie"),
                       Match("zz", 75, "movie"), Match("m2", 70, "movie"),
                       Match("m5", 60, "movie") >>
    [] id = "m3" -> << Match("m3", 100, "movie"), Match("m4", 88, "movie"),
                       Match("m2", 80, "movie"), Match("m1", 70, "movie"),
                       Match("m5", 60, "") >>
    [] id = "m2" -> << Match("m4", 90, "movie"), Match("m2", 85, "movie"),
                       Match("m1", 80, "movie"), Match("m3", 70, "movie") >>
    [] id = "m4" -> << Match("m4", 100, "movie"), Match("m5", 90, "movie"),
                       Match("m1", 80, "movie"), Match("m3", 70, "movie") >>
    [] id = "m5" -> << Match("m5", 100, "movie"), Match("zz", 90, "movie"),
                       Match("g1", 80, "game"), Match("m4", 70, "movie") >>
    [] id = "t1" -> << Match("t1", 100, "tvseries"), Match("t2", 90, "tvseries"),
                       Match("t3", 80, "tvseries"), Match("m1", 70, "movie") >>
    [] id = "t2" -> << Match("t2", 100, "tvseries"), Match("t3", 90, "tvseries"),
                       Match("t1", 80, "tvseries") >>
    [] id = "t3" -> << Match("t3", 100, "tvseries"), Match("t1", 90, "tvseries") >>
    [] id = "a1" -> << Match("a1", 100, "anime"), Match("a3", 90, "anime"),
                       Match("a2", 80, "anime") >>
    [] id = "a2" -> << Match("a2", 100, "anime"), Match("a3", 90, "anime"),
                       Match("a1", 80, "anime") >>
    [] id = "a3" -> << Match("a3", 100, "anime"), Match("a1", 90, "anime") >>
    [] id = "g1" -> << Match("g1", 100, "game"), Match("g3", 90, "game"),
                       Match("g2", 80, "game") >>
    [] id = "g2" -> << Match("g2", 100, "game"), Match("g3", 95, "game"),
                       Match("g1", 90, "game"), Match("xx", 50, "book") >>
    [] id = "g3" -> << Match("g3", 100, "game"), Match("g2", 90, "game") >>
    [] OTHER -> <<>>

\* index.query({ id, topK, includeMetadata: true }).matches
IndexQuery(id, k) == Take(Neighbours(id), k)

(***************************************************************************)
(* fetchFromMongoDB: the string key first, then the ObjectId form when the *)
(* key converts; an unknown type or a failing lookup gives null (<<>>).    *)
(***************************************************************************)
FindOne(type, key, asOid) ==
  Take(Filter(Collection(type),
              {d \in Range(Collection(type)) : d.key = key /\ d.oid = asOid}), 1)

\* fetchFromMongoDB looking the id up as a string key only
fetchFromMongoDB_StringOnly(id, type, fails) ==
  IF fails \/ ~KnownType(type) THEN <<>> ELSE FindOne(type, id, FALSE)

fetchFromMongoDB(id, type, fails) ==
  IF fails \/ ~KnownType(type) THEN <<>>
  ELSE LET doc == FindOne(type, id, FALSE)
       IN IF doc # <<>> THEN doc
          ELSE IF IsObjectIdHex(id) THEN FindOne(type, id, TRUE)
          ELSE <<>>

\* a candidate of a bucket; src records which strategy produced it
Candidate(i, sc, tp, sr) == [id |-> i, score |-> sc, type |-> tp, src |-> sr]

\* getMongoDBDocs giving up all the documents when one lookup fails
getMongoDBDocs_AllOrNothing(pineconeResults, failAt) ==
  LET tagged == Filter(pineconeResults, {item \in Range(pineconeResults) : item.tag # ""})
      found == Filter(tagged, {item \in Range(tagged) :
                                 fetchFromMongoDB(item.id, item.tag, FALSE) # <<>>})
  IN IF failAt \in 1..Len(tagged) THEN <<>>
     ELSE [n \in 1..Len(found) |->
             Candidate(found[n].id, found[n].score, found[n].tag, "similarity")]

\* getMongoDBDocs: the matches with a type tag whose document is found, in
\* the order of the matches; failAt is the position of a failing lookup
getMongoDBDocs(pineconeResults, failAt) ==
  LET tagged == Filter(pineconeResults, {item \in Range(pineconeResults) : item.tag # ""})
      F[i \in 0..Len(tagged)] ==
        IF i = 0 THEN <<>>
        ELSE IF fetchFromMongoDB(tagged[i].id, tagged[i].tag, failAt = i) # <<>>
             THEN Append(F[i-1], Candidate(tagged[i].id, tagged[i].score,
                                           tagged[i].tag, "similarity"))
             ELSE F[i-1]
  IN F[Len(tagged)]

\* recommendById without the filter on the item's own id
FilteredMatches_KeepsItself(itemId, k) == Take(IndexQuery(itemId, k + 1), k)

\* the matches recommendById keeps: not the item itself, at most topK
FilteredMatches(itemId, k) ==
  LET matches == IndexQuery(itemId, k + 1)
  IN Take(Filter(matches, {match \in Range(matches) : match.id # itemId}), k)

\* the outcome of a call: it raised, or it returned value
Outcome(r, v) == [raised |-> r, value |-> v]

\* the try block of recommendById(itemId, topK); f = -1: the index query
\* raises, f = 0: no failure, f = j > 0: the j-th hydration lookup fails
\* (fetchFromMongoDB catches it and returns null)
recommendByIdTry(itemId, k, f) ==
  IF f = -1 THEN Outcome(TRUE, <<>>)
  ELSE Outcome(FALSE, getMongoDBDocs(FilteredMatches(itemId, k), f))

\* recommendById with its catch: an error is logged and [] is returned
recommendByIdCall(itemId, k, f) ==
  LET o == recommendByIdTry(itemId, k, f)
  IN IF o.raised THEN Outcome(FALSE, <<>>) ELSE o

recommendById(itemId, k, f) == recommendByIdCall(itemId, k, f).value

\* the failures the environment can inject into one recommendById call
ByIdFaults(itemId, k) == {-1} \cup 1..Len(FilteredMatches(itemId, k))

(***************************************************************************)
(* fetchContentDetails: one $or query per type; an id that converts to an  *)
(* ObjectId is looked up in that form only, any other id as a string.  The *)
(* documents come back in the collection's order.                          *)
(***************************************************************************)
fetchContentDetails(ids, contentType, fails) ==
  IF Len(ids) = 0 \/ fails THEN <<>>
  ELSE LET truthy == Filter(ids, {id \in Range(ids) : id # ""})
           objectIdQueries == {id \in Range(truthy) : IsObjectIdHex(id)}
           stringIdQueries == {id \in Range(truthy) : ~IsObjectIdHex(id)}
       IN Filter(Collection(contentType),
                 {d \in Range(Collection(contentType)) :
                    \/ d.oid /\ d.key \in objectIdQueries
                    \/ ~d.oid /\ d.key \in stringIdQueries})

(***************************************************************************)
(* findSequelsAndSeries, one iteration of its loop over the consumed       *)
(* items: the series query (title contains the series name, not the item   *)
(* itself, at most SequelQueryLimit documents in natural order), the       *)
(* consumed filter, the scoring, the sort and the push loop with its       *)
(* break.  fails: the iteration raises before it pushes anything and the   *)
(* item is skipped (continue).  stop: the total cap ended the loop.        *)
(***************************************************************************)
SeriesQuery(content, contentType, seriesName) ==
  Take(Filter(Collection(contentType),
              {d \in Range(Collection(contentType)) :
                 /\ TitleContains(d.title, seriesName)
                 /\ ~(d.key = content.key /\ d.oid = content.oid)}),
       SequelQueryLimit)

\* for (const {item, score} of scoredContent) { push; if (length >= 3) break; }
PushSequels(recommendations, scoredContent) ==
  LET F[i \in 0..Len(scoredContent)] ==
        IF i = 0 THEN [recs |-> recommendations, brk |-> FALSE]
        ELSE LET prev == F[i-1]
                 r == Append(prev.recs, scoredContent[i])
             IN IF prev.brk THEN prev
                ELSE [recs |-> r, brk |-> Len(r) >= PerItemSequelBreak]
  IN F[Len(scoredContent)].recs

\* the matches of content's series query the user has not consumed
FilteredSeriesContent(content, contentType, userContentSet) ==
  LET seriesName == extractSeriesInfo(content.title)
      potentialSeriesContent ==
        IF content.title # <<>> /\ seriesName # <<>>
        THEN SeriesQuery(content, contentType, seriesName) ELSE <<>>
  IN Filter(potentialSeriesContent,
            {item \in Range(potentialSeriesContent) :
               IdToString(item) \notin userContentSet})

\* the loop over the consumed items without its total cap
TotalCapReached_Never(recommendations) == FALSE

\* if (recommendations.length >= 10) break
TotalCapReached(recommendations) == Len(recommendations) >= TotalSequelCap

\* the try block of one iteration; if (!title) continue
ProcessItem(recommendations, content, contentType, userContentSet) ==
  LET seriesName == extractSeriesInfo(content.title)
      queried == content.title # <<>> /\ seriesName # <<>>
  IN IF content.title = <<>>
     THEN [recs |-> recommendations, stop |-> FALSE, queried |-> 0]
     ELSE LET filteredSeriesContent ==
                FilteredSeriesContent(content, contentType, userContentSet)
              scoredContent ==
                SortByScore([n \in 1..Len(filteredSeriesContent) |->
                   Candidate(IdToString(filteredSeriesContent[n]),
                             calculateMetadataSimilarity(content, filteredSeriesContent[n],
                                                         contentType),
                             contentType, "sequel")])
              recs == PushSequels(recommendations, scoredContent)
          IN [recs |-> recs, stop |-> TotalCapReached(recs),
              queried |-> IF queried THEN 1 ELSE 0]

\* the number of series queries the iteration on content issues
Queried(content) ==
  IF content.title # <<>> /\ extractSeriesInfo(content.title) # <<>> THEN 1 ELSE 0

\* one iteration whose failure ends the loop
SequelStep_FailureEndsLoop(recommendations, content, contentType, userContentSet, fails) ==
  IF fails
  THEN [recs |-> recommendations, stop |-> TRUE, queried |-> Queried(content)]
  ELSE ProcessItem(recommendations, content, contentType, userContentSet)

\* one iteration with its catch: a failing item is skipped (continue)
SequelStep(recommendations, content, contentType, userContentSet, fails) ==
  IF fails
  THEN [recs |-> recommendations, stop |-> FALSE, queried |-> Queried(content)]
  ELSE ProcessItem(recommendations, content, contentType, userContentSet)

(***************************************************************************)
(* getRecommendationsByType after sequel detection.                        *)
(***************************************************************************)
\* contentData.slice(0, 3).map(item => item._id?.toString()).filter(Boolean)
ValidSampleIds(contentData) ==
  LET sample == Take(contentData, SampleSize)
      sampleIds == [n \in 1..Len(sample) |-> IdToString(sample[n])]
  IN Filter(sampleIds, {id \in Range(sampleIds) : id # ""})

CeilDiv(a, b) == (a + b - 1) \div b

\* the topK of one seed's recommendById call
SeedTopK(remainingCount, seedCount) == CeilDiv(remainingCount, seedCount) * 2

\* the similarity filter without the consumed-set test
SimilarityRecs_NoConsumedTest(allRecommendations, sequelRecs, contentType, userContentSet, remainingCount) ==
  LET flat == Flat(allRecommendations)
  IN Take(Filter(flat, {rec \in Range(flat) :
                          /\ rec.type = contentType
                          /\ ~(\E j \in 1..Len(sequelRecs) : sequelRecs[j].id = rec.id)}),
          remainingCount)

\* the similarity filter without .slice(0, remainingCount)
SimilarityRecs_NoSlice(allRecommendations, sequelRecs, contentType, userContentSet, remainingCount) ==
  LET flat == Flat(allRecommendations)
  IN Filter(flat, {rec \in Range(flat) :
                     /\ rec.type = contentType
                     /\ rec.id \notin userContentSet
                     /\ ~(\E j \in 1..Len(sequelRecs) : sequelRecs[j].id = rec.id)})

\* the similarity matches truncated before they are filtered
SimilarityRecs_SliceFirst(allRecommendations, sequelRecs, contentType, userContentSet, remainingCount) ==
  LET flat == Take(Flat(allRecommendations), remainingCount)
  IN Filter(flat, {rec \in Range(flat) :
                     /\ rec.type = contentType
                     /\ rec.id \notin userContentSet
                     /\ ~(\E j \in 1..Len(sequelRecs) : sequelRecs[j].id = rec.id)})

\* the filter and the truncation of the similarity matches
SimilarityRecs(allRecommendations, sequelRecs, contentType, userContentSet, remainingCount) ==
  LET flat == Flat(allRecommendations)
  IN Take(Filter(flat, {rec \in Range(flat) :
                          /\ rec.type # "" /\ rec.id # ""
                          /\ rec.type = contentType
                          /\ rec.id \notin userContentSet
                          /\ ~(\E j \in 1..Len(sequelRecs) : sequelRecs[j].id = rec.id)}),
          remainingCount)

\* the two lists combined the other way round
CombineRecs_SimilarityFirst(sequelRecs, similarityRecs) == similarityRecs \o sequelRecs

\* return [...sequelRecs, ...similarityRecs]
CombineRecs(sequelRecs, similarityRecs) == sequelRecs \o similarityRecs

\* getRecommendationsByType without its early return
EnoughSequels_Never(sequelRecs, perTypeCount) == FALSE

\* the early return taken only with more sequel candidates than asked for
EnoughSequels_Strict(sequelRecs, perTypeCount) == Len(sequelRecs) > perTypeCount

\* the early return: enough sequel candidates
EnoughSequels(sequelRecs, perTypeCount) == Len(sequelRecs) >= perTypeCount

(***************************************************************************)
(* The state of one call.                                                  *)
(***************************************************************************)
VARIABLES
  pc,           \* position of the call: start, hydrate, fanout, done
  call,         \* the entry point called and, for recommendById, its item id
  topK,         \* the topK argument
  userIds,      \* the userIds argument of recommendForUser
  userListsDb,  \* the lists the profile store holds for user u1, per type
  userData,     \* extractUserContent's result: ids and details per type
  task,         \* the per-type aggregation tasks
  doneOrder,    \* the types in the order their tasks completed
  result,       \* the value returned to the caller
  raised,       \* the call raised to its caller
  faultsLeft,   \* failures the environment may still inject
  injected      \* the failures injected so far: <<site, type, index, code>>

vars == <<pc, call, topK, userIds, userListsDb, userData, task, doneOrder,
          result, raised, faultsLeft, injected>>

EmptyLists == [t \in TypeSet |-> <<>>]

\* return [] of recommendForUser
EmptyResult == [shape |-> "array", buckets |-> EmptyLists, all |-> <<>>]
NoResult == [shape |-> "none", buckets |-> EmptyLists, all |-> <<>>]

IdleTask == [phase |-> "idle", i |-> 1, recs |-> <<>>, pending |-> {}, sims |-> <<>>,
             bucket |-> <<>>, rejected |-> FALSE, nSeq |-> 0, nVec |-> 0]

\* sequences over S without repetition, of length at most n
SeqsNoRep(S, n) ==
  UNION {{q \in [1..k -> S] : \A i, j \in 1..k : i # j => q[i] # q[j]} : k \in 0..n}

SagaKeys == {SagaDocs[i].key : i \in 1..Len(SagaDocs)}

\* the ids of a type the profiles and the calls are drawn from
Keys(type) == {Collection(type)[i].key : i \in 1..Len(Collection(type))} \ SagaKeys

\* profiles with one type's list drawn freely, and one with all four types
FocusProfiles ==
  {[tt \in TypeSet |-> IF tt = t THEN l ELSE <<>>] :
     <<t, l>> \in UNION {{<<t, l>> : l \in SeqsNoRep(Keys(t), MaxListLen)} : t \in TypeSet}}

FullProfile == [movie |-> <<"m1">>, tvseries |-> <<"t1">>, anime |-> <<"a1">>, game |-> <<"g2">>]

\* a user who has consumed nine titles of the long series
SagaProfile == [movie |-> <<>>, anime |-> <<>>, game |-> <<>>,
                tvseries |-> <<"c1", "c2", "c3", "c4", "c5", "c6", "c7", "c8", "c9">>]

\* a user whose movie list is not in the order of the collection
OrderProfile == [movie |-> <<"m4", "m2", "m3", "m1">>, tvseries |-> <<>>,
                 anime |-> <<>>, game |-> <<>>]

Profiles == FocusProfiles \cup {FullProfile, SagaProfile, OrderProfile}

UserIdLists == {<<>>, <<"u0", "u1">>, <<"u1", "u0">>}

ItemIds == UNION {Keys(t) : t \in TypeSet} \cup {"zz"}

(***************************************************************************)
(* State outside the recommendation call: one evaluation of the scorer on  *)
(* its own, and the ingestion run (a separate batch job).                  *)
(***************************************************************************)
VARIABLES
  probe,          \* one evaluation of compareArrays or the scorer
  ipc,            \* position of the ingestion run
  cidx,           \* index in collections of the collection being ingested
  size,           \* number of documents of that collection
  processed,      \* ingestCollection's processed
  failedAttempts, \* ingestCollection's failedAttempts
  attempt,        \* withRetry's attempt, for the call in progress
  slept,          \* the sleeps of the last step, in order
  started,        \* the content types whose ingestion was started, in order
  ended,          \* the content types whose ingestion has ended, in order
  outcome,        \* how the last ingestion ended
  upserted,       \* offsets of the chunks of the collection that were upserted
  tries           \* processBatch calls made for the chunk at processed

ingestVars == <<ipc, cidx, size, processed, failedAttempts, attempt, slept,
                started, ended, outcome, upserted, tries>>

allVars == <<vars, probe, ingestVars>>

NoProbe == [op |-> "none"]

\* no ingestion run
IngestOff ==
  /\ ipc = "off" /\ cidx = 0 /\ size = 0 /\ processed = 0 /\ failedAttempts = 0
  /\ attempt = 0 /\ slept = <<>> /\ started = <<>> /\ ended = <<>>
  /\ outcome = "none" /\ upserted = {} /\ tries = 0

\* no recommendation call
RecommendOff ==
  /\ pc = "off" /\ call = [fn |-> "", itemId |-> ""] /\ topK = 0 /\ userIds = <<>>
  /\ userListsDb = EmptyLists /\ userData = [ids |-> EmptyLists, details |-> EmptyLists]
  /\ task = [t \in TypeSet |-> IdleTask] /\ doneOrder = <<>> /\ result = NoResult
  /\ raised = FALSE /\ faultsLeft = 0 /\ injected = {}

Init ==
  /\ probe = NoProbe
  /\ IngestOff
  /\ pc = "start"
  /\ topK \in 0..MaxTopK
  /\ \/ /\ call = [fn |-> "recommendForUser", itemId |-> ""]
        /\ userIds \in UserIdLists
        /\ userListsDb \in Profiles
     \/ /\ call \in {[fn |-> "recommendById", itemId |-> x] : x \in ItemIds}
        /\ userIds = <<>>
        /\ userListsDb = EmptyLists
  /\ userData = [ids |-> EmptyLists, details |-> EmptyLists]
  /\ task = [t \in TypeSet |-> IdleTask]
  /\ doneOrder = <<>>
  /\ result = NoResult
  /\ raised = FALSE
  /\ faultsLeft = MaxFaults
  /\ injected = {}

\* the failures the environment may inject now, besides none
Inject(S) == IF faultsLeft > 0 THEN S ELSE {}

\* f is injected at a site (none: nothing is injected)
Spend(f, none, site) ==
  /\ faultsLeft' = IF f = none THEN faultsLeft ELSE faultsLeft - 1
  /\ injected' = IF f = none THEN injected ELSE injected \cup {site}

NoFaults == UNCHANGED <<faultsLeft, injected>>

(***************************************************************************)
(* recommendById called as an entry point.                                 *)
(***************************************************************************)
RecommendByIdEntry ==
  /\ pc = "start"
  /\ call.fn = "recommendById"
  /\ \E f \in {0} \cup Inject(ByIdFaults(call.itemId, topK)) :
       LET o == recommendByIdCall(call.itemId, topK, f)
       IN /\ result' = [shape |-> "list", buckets |-> EmptyLists, all |-> o.value]
          /\ raised' = o.raised
          /\ Spend(f, 0, <<"byid", "", 0, f>>)
  /\ pc' = "done"
  /\ UNCHANGED <<call, topK, userIds, userListsDb, userData, task, doneOrder>>
  /\ UNCHANGED <<probe, ingestVars>>

(***************************************************************************)
(* recommendForUser.                                                       *)
(***************************************************************************)
\* the lookup without its $match on user_id: any user's document is returned
getUserContentLists_AnyUser(userId, fails) == IF fails THEN <<>> ELSE <<userListsDb>>

\* getUserContentLists: the user's lists document, or null (<<>>) when there
\* is none or the lookup raises (it catches and returns null)
getUserContentLists(userId, fails) ==
  IF fails \/ userId # "u1" THEN <<>> ELSE <<userListsDb>>

\* recommendForUser without its catch
recommendForUserCatch_Rethrows(o) == o

\* the catch of recommendForUser: an error is logged and [] is returned
recommendForUserCatch(o) == IF o.raised THEN Outcome(FALSE, EmptyResult) ELSE o

Return(o) ==
  LET r == recommendForUserCatch(o)
  IN /\ result' = r.value
     /\ raised' = r.raised
     /\ pc' = "done"

\* new Set(userData.<type>.filter(Boolean))
userContentSet(type) == {id \in Range(userData.ids[type]) : id # ""}

\* if (!userIds.length) return []; the profile lookup; if (!userLists) return []
GetUserContentLists ==
  /\ pc = "start"
  /\ call.fn = "recommendForUser"
  /\ IF Len(userIds) = 0
     THEN Return(Outcome(FALSE, EmptyResult)) /\ NoFaults
     ELSE \E fails \in {FALSE} \cup Inject({TRUE}) :
            /\ Spend(fails, FALSE, <<"lookup", "", 0, 0>>)
            /\ IF getUserContentLists(userIds[1], fails) = <<>>
               THEN Return(Outcome(FALSE, EmptyResult))
               ELSE pc' = "hydrate" /\ UNCHANGED <<result, raised>>
  /\ UNCHANGED <<call, topK, userIds, userListsDb, userData, task, doneOrder>>
  /\ UNCHANGED <<probe, ingestVars>>

\* extractUserContent, the totalContent check and the start of the four
\* aggregations; fault names the type whose hydration query raises, or
\* "malformed" when extractUserContent itself raises
ExtractUserContent ==
  /\ pc = "hydrate"
  /\ \E fault \in {"none"} \cup Inject(TypeSet \cup {"malformed"}) :
       LET ids == [t \in TypeSet |->
                     Filter(userListsDb[t], {id \in Range(userListsDb[t]) : id # ""})]
           details == [t \in TypeSet |-> fetchContentDetails(ids[t], t, fault = t)]
           totalContent == Len(details["movie"]) + Len(details["tvseries"])
                           + Len(details["anime"]) + Len(details["game"])
       IN /\ fault \in TypeSet => Len(ids[fault]) > 0
          /\ Spend(fault, "none", IF fault = "malformed" THEN <<"malformed", "", 0, 0>>
                                   ELSE <<"hydrate", fault, 0, 0>>)
          /\ IF fault = "malformed"
             THEN Return(Outcome(TRUE, EmptyResult)) /\ UNCHANGED <<userData, task>>
             ELSE /\ userData' = [ids |-> ids, details |-> details]
                  /\ IF totalContent = 0
                     THEN Return(Outcome(FALSE, EmptyResult)) /\ UNCHANGED task
                     ELSE /\ task' = [t \in TypeSet |->
                                        IF Len(details[t]) > 0
                                        THEN [IdleTask EXCEPT !.phase = "sequels"]
                                        ELSE [IdleTask EXCEPT !.phase = "skipped"]]
                          /\ pc' = "fanout"
                          /\ UNCHANGED <<result, raised>>
  /\ UNCHANGED <<call, topK, userIds, userListsDb, doneOrder>>
  /\ UNCHANGED <<probe, ingestVars>>

\* the catch block of getRecommendationsByType: return sequelRecs || [],
\* where sequelRecs is declared inside the try block and so is not in
\* scope: evaluating it raises a ReferenceError and the promise rejects
ByTypeCatch(sequelRecs) == Outcome(TRUE, <<>>)

\* the aggregation promises without their .catch
TypeTaskCatch_Missing(o) == o

\* .catch(err => { ...; return []; }) on each aggregation's promise
TypeTaskCatch(o) == IF o.raised THEN Outcome(FALSE, <<>>) ELSE o

TaskDone(tk, o) ==
  LET c == TypeTaskCatch(o)
  IN [tk EXCEPT !.phase = "done", !.bucket = c.value, !.rejected = c.raised]

\* getRecommendationsByType once findSequelsAndSeries has returned; boom: a
\* step of the try block after the early return raises
AfterSequels(tk, t, boom) ==
  LET seeds == ValidSampleIds(userData.details[t])
  IN IF EnoughSequels(tk.recs, topK) THEN TaskDone(tk, Outcome(FALSE, Take(tk.recs, topK)))
     ELSE IF boom THEN TaskDone(tk, ByTypeCatch(tk.recs))
     ELSE IF Len(seeds) = 0 THEN TaskDone(tk, Outcome(FALSE, tk.recs))
     ELSE [tk EXCEPT !.phase = "seeds", !.pending = 1..Len(seeds),
                     !.sims = [s \in 1..Len(seeds) |-> <<>>], !.nVec = Len(seeds)]

\* getRecommendationsByType once every seed's request has completed
AfterSeeds(tk, t, boom) ==
  LET remainingCount == topK - Len(tk.recs)
  IN IF boom THEN TaskDone(tk, ByTypeCatch(tk.recs))
     ELSE TaskDone(tk, Outcome(FALSE,
            CombineRecs(tk.recs, SimilarityRecs(tk.sims, tk.recs, t, userContentSet(t),
                                                remainingCount))))

\* a task took a step; a rejected aggregation promise rejects Promise.all
\* and recommendForUser's await raises into its catch
Progress(t, tk) ==
  /\ task' = [task EXCEPT ![t] = tk]
  /\ doneOrder' = IF tk.phase = "done" THEN Append(doneOrder, t) ELSE doneOrder
  /\ IF tk.phase = "done" /\ tk.rejected
     THEN Return(Outcome(TRUE, EmptyResult))
     ELSE UNCHANGED <<pc, result, raised>>

\* one iteration of findSequelsAndSeries' loop (the first one after the
\* connection check), and what follows the loop when it ends
SequelItem(t) ==
  /\ pc = "fanout"
  /\ task[t].phase = "sequels"
  /\ LET tk == task[t]
         contentData == userData.details[t]
     IN \E fault \in {"none"} \cup Inject({"item", "connect", "internal"}) :
          LET step == SequelStep(tk.recs, contentData[tk.i], t, userContentSet(t),
                                 fault = "item")
              ends == fault = "connect" \/ step.stop \/ tk.i = Len(contentData)
              tk1 == IF fault = "connect" THEN tk
                     ELSE [tk EXCEPT !.recs = step.recs, !.i = @ + 1,
                                     !.nSeq = @ + step.queried]
          IN /\ fault = "connect" => tk.i = 1
             /\ fault = "internal" => ends /\ ~EnoughSequels(tk1.recs, topK)
             /\ Spend(fault, "none", <<fault, t, tk.i, 0>>)
             /\ Progress(t, IF ends THEN AfterSequels(tk1, t, fault = "internal") ELSE tk1)
  /\ UNCHANGED <<call, topK, userIds, userListsDb, userData>>
  /\ UNCHANGED <<probe, ingestVars>>

\* async id => { try { return (await recommendById(id, k)) || [] } catch { return [] } }
SeedResult(id, k, f) ==
  LET o == recommendByIdCall(id, k, f)
  IN IF o.raised THEN <<>> ELSE o.value

\* the request of seed s completes; f = -2: a later step of the try block raises
SeedQuery(t, s) ==
  /\ pc = "fanout"
  /\ task[t].phase = "seeds"
  /\ s \in task[t].pending
  /\ LET tk == task[t]
         seeds == ValidSampleIds(userData.details[t])
         k == SeedTopK(topK - Len(tk.recs), Len(seeds))
         last == tk.pending = {s}
     IN \E f \in {0} \cup Inject(ByIdFaults(seeds[s], k) \cup {-2}) :
          LET tk1 == [tk EXCEPT !.sims[s] = SeedResult(seeds[s], k, IF f = -2 THEN 0 ELSE f),
                                !.pending = @ \ {s}]
          IN /\ f = -2 => last
             /\ Spend(f, 0, IF f = -2 THEN <<"internal", t, 0, 0>> ELSE <<"seed", t, s, f>>)
             /\ Progress(t, IF last THEN AfterSeeds(tk1, t, f = -2) ELSE tk1)
  /\ UNCHANGED <<call, topK, userIds, userListsDb, userData>>
  /\ UNCHANGED <<probe, ingestVars>>

\* the results gathered in the order in which the tasks completed
PromiseAll_CompletionOrder(buckets, order) ==
  [i \in 1..4 |-> IF i <= Len(order) THEN buckets[order[i]] ELSE <<>>]

\* Promise.all: the results in the order of the promises, whatever the
\* order in which they completed
PromiseAll(buckets, order) == <<buckets["movie"], buckets["tvseries"],
                                buckets["anime"], buckets["game"]>>

\* all four aggregations have completed: the result is assembled
Assemble ==
  /\ pc = "fanout"
  /\ \A t \in TypeSet : task[t].phase \in {"done", "skipped"}
  /\ LET results == PromiseAll([t \in TypeSet |-> task[t].bucket], doneOrder)
         buckets == [t \in TypeSet |->
                       CASE t = "movie" -> results[1] [] t = "tvseries" -> results[2]
                         [] t = "anime" -> results[3] [] t = "game" -> results[4]]
         totalRecommendations == Len(results[1]) + Len(results[2])
                                 + Len(results[3]) + Len(results[4])
     IN IF totalRecommendations = 0
        THEN Return(Outcome(FALSE, EmptyResult))
        ELSE Return(Outcome(FALSE, [shape |-> "object", buckets |-> buckets,
                                    all |-> results[1] \o results[2] \o results[3]
                                            \o results[4]]))
  /\ NoFaults
  /\ UNCHANGED <<call, topK, userIds, userListsDb, userData, task, doneOrder>>
  /\ UNCHANGED <<probe, ingestVars>>

Next ==
  \/ RecommendByIdEntry
  \/ GetUserContentLists
  \/ ExtractUserContent
  \/ \E t \in TypeSet : SequelItem(t)
  \/ \E t \in TypeSet : \E s \in 1..SampleSize : SeedQuery(t, s)
  \/ Assemble

Spec == Init /\ [][Next]_vars

(***************************************************************************)
(* The aggregation of one type run alone, from start to end, under the     *)
(* failures inj: findSequelsAndSeries as one loop and                      *)
(* getRecommendationsByType as one function.                               *)
(***************************************************************************)
findSequelsAndSeries(contentData, contentType, consumed, inj) ==
  LET F[i \in 0..Len(contentData)] ==
        IF i = 0 THEN [recs |-> <<>>, stop |-> FALSE]
        ELSE LET prev == F[i-1]
                 step == SequelStep(prev.recs, contentData[i], contentType, consumed,
                                    <<"item", contentType, i, 0>> \in inj)
             IN IF prev.stop THEN prev
                ELSE [recs |-> step.recs, stop |-> step.stop]
  IN IF Len(contentData) = 0 \/ <<"connect", contentType, 1, 0>> \in inj THEN <<>>
     ELSE F[Len(contentData)].recs

getRecommendationsByType(contentData, contentType, perTypeCount, consumed, inj) ==
  LET sequelRecs == findSequelsAndSeries(contentData, contentType, consumed, inj)
      remainingCount == perTypeCount - Len(sequelRecs)
      seeds == ValidSampleIds(contentData)
      code(s) == LET hit == {x \in inj : x[1] = "seed" /\ x[2] = contentType /\ x[3] = s}
                 IN IF hit = {} THEN 0 ELSE (CHOOSE x \in hit : TRUE)[4]
      allRecommendations ==
        [s \in 1..Len(seeds) |->
           SeedResult(seeds[s], SeedTopK(remainingCount, Len(seeds)), code(s))]
  IN IF Len(contentData) = 0 THEN Outcome(FALSE, <<>>)
     ELSE IF EnoughSequels(sequelRecs, perTypeCount)
       THEN Outcome(FALSE, Take(sequelRecs, perTypeCount))
     ELSE IF \E x \in inj : x[1] = "internal" /\ x[2] = contentType
       THEN ByTypeCatch(sequelRecs)
     ELSE IF Len(seeds) = 0 THEN Outcome(FALSE, sequelRecs)
     ELSE Outcome(FALSE, CombineRecs(sequelRecs,
            SimilarityRecs(allRecommendations, sequelRecs, contentType, consumed,
                           remainingCount)))

\* the bucket of a type when its aggregation runs alone under the failures inj
BucketAlone(t, inj) ==
  TypeTaskCatch(getRecommendationsByType(userData.details[t], t, topK,
                                         userContentSet(t), inj)).value

(***************************************************************************)
(* The scorer on its own: one evaluation of compareArrays on two arrays,   *)
(* or of calculateMetadataSimilarity on two items and a content type, and  *)
(* the same evaluation with the two arguments swapped.  The items carry    *)
(* genres, a cast list and one value for every other attribute.            *)
(***************************************************************************)
MaxArrayLen == 3
MaxCast == 6

Elems == {"x", "y", "z"}

\* the arrays over S of length at most n
Arrays(S, n) == UNION {[1..k -> S] : k \in 0..n}

Cast == <<"ann", "bob", "cy", "dee", "eve", "fay", "gus", "hal">>

ActorLists == {Take(Cast, n) : n \in 0..MaxCast} \cup {<<"fay", "ann", "">>}

FieldArrays == {<<>>, <<"x", "y">>, <<"y", "">>}

Fields == {"genres", "demographics", "themes", "studios", "production_companies",
           "actors", "networks", "platforms", "developers", "publishers"}

Item(g, a, o) ==
  Doc("p", TRUE, <<>>,
      [f \in Fields |-> IF f = "genres" THEN g ELSE IF f = "actors" THEN a ELSE o])

Items == {Item(g, a, o) : g \in FieldArrays, a \in ActorLists, o \in FieldArrays}
           \cup {Doc("p", TRUE, <<>>, NoAttrs)}

Probe(o, a1, a2, c1, c2, t) ==
  [op |-> o, array1 |-> a1, array2 |-> a2, content1 |-> c1, content2 |-> c2,
   contentType |-> t, done |-> FALSE, value |-> 0, swapped |-> 0]

ScoreInit ==
  /\ RecommendOff
  /\ IngestOff
  /\ probe \in {Probe("compareArrays", a1, a2, Item(<<>>, <<>>, <<>>),
                      Item(<<>>, <<>>, <<>>), "") :
                  a1 \in Arrays(Elems, MaxArrayLen), a2 \in Arrays(Elems, MaxArrayLen)}
            \cup {Probe("calculateMetadataSimilarity", <<>>, <<>>, c1, c2, t) :
                  c1 \in Items, c2 \in Items, t \in TypeSet}

CompareArraysCall ==
  /\ probe.op = "compareArrays" /\ ~probe.done
  /\ probe' = [probe EXCEPT !.done = TRUE,
                            !.value = compareArrays(probe.array1, probe.array2),
                            !.swapped = compareArrays(probe.array2, probe.array1)]
  /\ UNCHANGED <<vars, ingestVars>>

SimilarityCall ==
  /\ probe.op = "calculateMetadataSimilarity" /\ ~probe.done
  /\ probe' = [probe EXCEPT
       !.done = TRUE,
       !.value = calculateMetadataSimilarity(probe.content1, probe.content2,
                                             probe.contentType),
       !.swapped = calculateMetadataSimilarity(probe.content2, probe.content1,
                                               probe.contentType)]
  /\ UNCHANGED <<vars, ingestVars>>

ScoreNext == CompareArraysCall \/ SimilarityCall

ScoreSpec == ScoreInit /\ [][ScoreNext]_allVars

(***************************************************************************)
(* The ingestion run: main initialises the clients and ingests the four    *)
(* collections one after the other.  ingestCollection counts the           *)
(* documents and then, until a chunk comes back empty, fetches the chunk   *)
(* at offset processed and hands it to processBatch (the embedding call,   *)
(* then the upsert), each external call inside withRetry.  One step of the *)
(* model is one call of an external service with what the code does on its *)
(* outcome, the sleeps included.  The collection does not change during    *)
(* the run and its documents are well-formed; the services may raise a     *)
(* rate-limit signal, a timeout or another error at every call.            *)
(***************************************************************************)
MaxFullChunks == 1
PartialChunk == 20

BATCH_SIZE == 50
InitialWaitTime == 4400
FetchRetries == 3
DefaultRetries == 5
SkipAfter == 5
FetchErrorSleep == 5000
SuccessSleep == 1000
FailedSleep == 5000

collections == << <<"movies", "movie">>, <<"tv-series", "tvseries">>,
                  <<"animes", "anime">>, <<"games", "game">> >>

\* the sizes a collection may have
SizeSet == {n * BATCH_SIZE + r : n \in 0..MaxFullChunks, r \in {0, PartialChunk}}

ErrorKinds == {"rate", "timeout", "other"}

RECURSIVE Pow(_, _)
Pow(b, e) == IF e = 0 THEN 1 ELSE b * Pow(b, e - 1)

\* initialWaitTime * Math.pow(1.5, n), in milliseconds
waitTime_TimesOnePointFive(initialWaitTime, n) ==
  (initialWaitTime * Pow(3, n)) \div Pow(2, n)

\* the exponent taken as attempt instead of attempt - 1
waitTime_FromAttempt(initialWaitTime, n) ==
  waitTime_TimesOnePointFive(initialWaitTime, n)

\* initialWaitTime * Math.pow(1.5, attempt - 1), for attempt n
waitTime(initialWaitTime, n) ==
  waitTime_TimesOnePointFive(initialWaitTime, n - 1)

\* await sleep(ms): why it sleeps and, for a back-off, after which attempt
\* and which kind of error
Sleep(w, m, n, k) == [why |-> w, ms |-> m, attempt |-> n, kind |-> k]

\* withRetry's catch after the call of attempt n raised an error of kind k:
\* the back-off sleep, and whether fn is called again.  A rate limit or a
\* timeout sleeps after the last attempt too, and then the loop ends and
\* 'Failed after n retries' is raised; another error at the last attempt
\* is raised at once.
\* withRetry calling fn once more after the last attempt failed
withRetry_OneMore(k, n, maxRetries) ==
  IF k \in {"rate", "timeout"} \/ n <= maxRetries
  THEN [sleeps |-> <<Sleep("backoff", waitTime(InitialWaitTime, n), n, k)>>,
        again |-> n <= maxRetries]
  ELSE [sleeps |-> <<>>, again |-> FALSE]

withRetry(k, n, maxRetries) ==
  IF k \in {"rate", "timeout"} \/ n < maxRetries
  THEN [sleeps |-> <<Sleep("backoff", waitTime(InitialWaitTime, n), n, k)>>,
        again |-> n < maxRetries]
  ELSE [sleeps |-> <<>>, again |-> FALSE]

\* a chunk that always has BATCH_SIZE records
BatchLength_Full == BATCH_SIZE

\* batch.length of find({}).skip(processed).limit(BATCH_SIZE)
BatchLength == Min(BATCH_SIZE, size - processed)

IngestInit ==
  /\ RecommendOff
  /\ probe = NoProbe
  /\ ipc = "main" /\ cidx = 0 /\ size = 0 /\ processed = 0 /\ failedAttempts = 0
  /\ attempt = 0 /\ slept = <<>> /\ started = <<>> /\ ended = <<>>
  /\ outcome = "none" /\ upserted = {} /\ tries = 0

\* initClients and ensureIndex; when one of them raises, main's catch logs
\* the error and the run ends
MainStart ==
  /\ ipc = "main"
  /\ \E ok \in BOOLEAN : ipc' = IF ok THEN "loop" ELSE "closed"
  /\ UNCHANGED <<cidx, size, processed, failedAttempts, attempt, slept, started,
                 ended, outcome, upserted, tries>>
  /\ UNCHANGED <<vars, probe>>

\* main's loop without its catch: an error raised by ingestCollection
\* reaches main's outer catch and the run ends
AfterIngest_Aborts(how) == IF how = "thrown" THEN "closed" ELSE "loop"

\* where main is once ingestCollection has ended in the way how: in its
\* loop, whether the call returned or its error was caught and logged
AfterIngest(how) == "loop"

\* ingestCollection has ended
EndCollection(i, how) ==
  /\ ended' = Append(ended, collections[i][2])
  /\ outcome' = how
  /\ ipc' = AfterIngest(how)

\* the next iteration of main's loop: ingestCollection is called and takes
\* its collection handle (outside its try block: an error there reaches
\* main's catch) and counts the documents (an error there reaches
\* ingestCollection's own catch, which logs it and returns)
StartCollection ==
  /\ ipc = "loop"
  /\ cidx < Len(collections)
  /\ cidx' = cidx + 1
  /\ started' = Append(started, collections[cidx + 1][2])
  /\ processed' = 0
  /\ failedAttempts' = 0
  /\ upserted' = {}
  /\ tries' = 0
  /\ slept' = <<>>
  /\ \E o \in {"ok", "handle", "count"} :
       IF o = "ok"
       THEN /\ size' \in SizeSet
            /\ ipc' = "fetch"
            /\ attempt' = 1
            /\ UNCHANGED <<ended, outcome>>
       ELSE /\ size' = 0
            /\ attempt' = 0
            /\ EndCollection(cidx + 1, IF o = "handle" THEN "thrown" ELSE "error")
  /\ UNCHANGED <<vars, probe>>

\* the loop is over: 'All collections processed', and the finally block
\* closes the connection
Finish ==
  /\ ipc = "loop"
  /\ cidx = Len(collections)
  /\ ipc' = "closed"
  /\ UNCHANGED <<cidx, size, processed, failedAttempts, attempt, slept, started,
                 ended, outcome, upserted, tries>>
  /\ UNCHANGED <<vars, probe>>

\* one call of withRetry's fn raised an error of kind k: either fn is
\* called again after the back-off, or withRetry raises
Retry(k, maxRetries) == withRetry(k, attempt, maxRetries)

\* the chunk fetch whose failure is counted like a failure of processBatch
FetchChunk_CountsFailure ==
  /\ ipc = "fetch"
  /\ \E k \in {"ok"} \cup ErrorKinds :
       IF k = "ok"
       THEN /\ slept' = <<>>
            /\ UNCHANGED <<processed, failedAttempts, upserted>>
            /\ IF BatchLength = 0
               THEN /\ EndCollection(cidx, "completed")
                    /\ attempt' = 0
                    /\ UNCHANGED tries
               ELSE /\ ipc' = "embed"
                    /\ attempt' = 1
                    /\ tries' = tries + 1
                    /\ UNCHANGED <<ended, outcome>>
       ELSE IF Retry(k, FetchRetries).again
       THEN /\ attempt' = attempt + 1
            /\ slept' = Retry(k, FetchRetries).sleeps
            /\ UNCHANGED <<ipc, ended, outcome, tries, processed,
                           failedAttempts, upserted>>
       ELSE /\ attempt' = 1
            /\ slept' = Retry(k, FetchRetries).sleeps
                         \o <<Sleep("fetch", FetchErrorSleep, 0, "")>>
            /\ failedAttempts' = (failedAttempts + 1) % SkipAfter
            /\ processed' = IF failedAttempts + 1 >= SkipAfter
                            THEN processed + BatchLength ELSE processed
            /\ UNCHANGED <<ipc, ended, outcome, tries, upserted>>
  /\ UNCHANGED <<cidx, size, started>>
  /\ UNCHANGED <<vars, probe>>

\* one call of collection.find({}).skip(processed).limit(BATCH_SIZE) inside
\* withRetry(fn, 3).  When withRetry raises, the error is logged, the loop
\* sleeps and fetches the same chunk again.  An empty chunk ends the
\* ingestion of the collection.
FetchChunk ==
  /\ ipc = "fetch"
  /\ \E k \in {"ok"} \cup ErrorKinds :
       IF k = "ok"
       THEN /\ slept' = <<>>
            /\ IF BatchLength = 0
               THEN /\ EndCollection(cidx, "completed")
                    /\ attempt' = 0
                    /\ UNCHANGED tries
               ELSE /\ ipc' = "embed"
                    /\ attempt' = 1
                    /\ tries' = tries + 1
                    /\ UNCHANGED <<ended, outcome>>
       ELSE /\ IF Retry(k, FetchRetries).again
               THEN /\ attempt' = attempt + 1
                    /\ slept' = Retry(k, FetchRetries).sleeps
               ELSE /\ attempt' = 1
                    /\ slept' = Retry(k, FetchRetries).sleeps
                                 \o <<Sleep("fetch", FetchErrorSleep, 0, "")>>
            /\ UNCHANGED <<ipc, ended, outcome, tries>>
  /\ UNCHANGED <<cidx, size, processed, failedAttempts, started, upserted>>
  /\ UNCHANGED <<vars, probe>>

\* the catch around processBatch without the reset of the counter on a skip
BatchFailed_NoReset(fa, done, len) ==
  [processed |-> IF fa + 1 >= SkipAfter THEN done + len ELSE done,
   failedAttempts |-> fa + 1,
   skipped |-> fa + 1 >= SkipAfter]

\* the catch around processBatch: failedAttempts++, and from SkipAfter
\* failures on the chunk is skipped (processed += batch.length) and the
\* counter is reset
BatchFailed(fa, done, len) ==
  [processed |-> IF fa + 1 >= SkipAfter THEN done + len ELSE done,
   failedAttempts |-> IF fa + 1 >= SkipAfter THEN 0 ELSE fa + 1,
   skipped |-> fa + 1 >= SkipAfter]

\* the wait after a failed chunk, the same whatever the counter
FailedWait_Constant(fa) == FailedSleep

\* sleep(5000 * failedAttempts), with the counter as the catch left it
FailedWait(fa) == FailedSleep * fa

\* the catch around processBatch going on with the call that failed instead
\* of the next iteration of the loop
ProcessBatchFailed_Resumes(sleeps) ==
  LET r == BatchFailed(failedAttempts, processed, BatchLength)
  IN /\ processed' = r.processed
     /\ failedAttempts' = r.failedAttempts
     /\ tries' = IF r.skipped THEN 0 ELSE tries
     /\ slept' = sleeps \o <<Sleep("failed", FailedWait(r.failedAttempts), 0, "")>>
     /\ ipc' = IF r.skipped THEN "fetch" ELSE ipc
     /\ attempt' = 1
     /\ UNCHANGED upserted

\* processBatch raised (withRetry gave up on one of its two calls): the
\* catch, then sleep(5000 * failedAttempts) and the next iteration
ProcessBatchFailed(sleeps) ==
  LET r == BatchFailed(failedAttempts, processed, BatchLength)
  IN /\ processed' = r.processed
     /\ failedAttempts' = r.failedAttempts
     /\ tries' = IF r.skipped THEN 0 ELSE tries
     /\ slept' = sleeps \o <<Sleep("failed", FailedWait(r.failedAttempts), 0, "")>>
     /\ ipc' = "fetch"
     /\ attempt' = 1
     /\ UNCHANGED upserted

\* one call of openai.embeddings.create inside withRetry(fn)
EmbedCall ==
  /\ ipc = "embed"
  /\ \E k \in {"ok"} \cup ErrorKinds :
       IF k = "ok"
       THEN /\ ipc' = "upsert"
            /\ attempt' = 1
            /\ slept' = <<>>
            /\ UNCHANGED <<processed, failedAttempts, tries, upserted>>
       ELSE IF Retry(k, DefaultRetries).again
       THEN /\ attempt' = attempt + 1
            /\ slept' = Retry(k, DefaultRetries).sleeps
            /\ UNCHANGED <<ipc, processed, failedAttempts, tries, upserted>>
       ELSE ProcessBatchFailed(Retry(k, DefaultRetries).sleeps)
  /\ UNCHANGED <<cidx, size, started, ended, outcome>>
  /\ UNCHANGED <<vars, probe>>

\* one call of pineconeIndex.upsert inside withRetry(fn); when it returns,
\* processBatch returns: processed += batch.length, failedAttempts = 0,
\* sleep(1000) and the next iteration
UpsertCall ==
  /\ ipc = "upsert"
  /\ \E k \in {"ok"} \cup ErrorKinds :
       IF k = "ok"
       THEN /\ upserted' = upserted \cup {processed}
            /\ processed' = processed + BatchLength
            /\ failedAttempts' = 0
            /\ tries' = 0
            /\ slept' = <<Sleep("success", SuccessSleep, 0, "")>>
            /\ ipc' = "fetch"
            /\ attempt' = 1
       ELSE IF Retry(k, DefaultRetries).again
       THEN /\ attempt' = attempt + 1
            /\ slept' = Retry(k, DefaultRetries).sleeps
            /\ UNCHANGED <<ipc, processed, failedAttempts, tries, upserted>>
       ELSE ProcessBatchFailed(Retry(k, DefaultRetries).sleeps)
  /\ UNCHANGED <<cidx, size, started, ended, outcome>>
  /\ UNCHANGED <<vars, probe>>

IngestNext ==
  \/ MainStart
  \/ StartCollection
  \/ Finish
  \/ FetchChunk
  \/ EmbedCall
  \/ UpsertCall

IngestSpec == IngestInit /\ [][IngestNext]_allVars

\* every call of an external service and every sleep returns
IngestFair == IngestSpec /\ WF_allVars(IngestNext)

(***************************************************************************)
(* Properties.                                                             *)
(***************************************************************************)
Ids(bucket) == [i \in 1..Len(bucket) |-> bucket[i].id]

Returned == pc = "done" /\ call.fn = "recommendForUser"

HasSrc(bucket, src) == \E i \in 1..Len(bucket) : bucket[i].src = src

\* C1: in every result of recommendForUser no candidate id appears twice
\* within one type bucket.
C1_NoDuplicateIds ==
  Returned => \A t \in TypeSet : NoDup(Ids(result.buckets[t]))

\* C2: in every result of recommendForUser no id of a type bucket is in the
\* user's consumed-id set of that type, and no candidate is one of the
\* hydrated consumed items (the sequel sources and the similarity seeds).
C2_NoConsumedIds ==
  Returned =>
    \A t \in TypeSet : \A i \in 1..Len(result.buckets[t]) :
      /\ result.buckets[t][i].id \notin userContentSet(t)
      /\ \A j \in 1..Len(userData.details[t]) :
           result.buckets[t][i].id # IdToString(userData.details[t][j])

\* a returned bucket holds sequel and similarity candidates, and both
\* filters met a consumed id: a consumed title matched a consumed item's
\* series and a seed's neighbours held a consumed id
C2_Witness ==
  /\ Returned
  /\ \E t \in TypeSet :
       /\ HasSrc(result.buckets[t], "sequel")
       /\ HasSrc(result.buckets[t], "similarity")
       /\ \E i, j \in 1..Len(userData.details[t]) :
            /\ i # j
            /\ TitleContains(userData.details[t][j].title,
                             extractSeriesInfo(userData.details[t][i].title))
       /\ \E s \in 1..Len(task[t].sims) : \E n \in 1..Len(task[t].sims[s]) :
            task[t].sims[s][n].id \in userContentSet(t)

\* C3: every type bucket of a result of recommendForUser(userIds, topK)
\* holds at most topK candidates.
C3_BucketAtMostTopK ==
  Returned => \A t \in TypeSet : Len(result.buckets[t]) <= topK

\* a returned bucket is full, holds both kinds of candidates, and the
\* similarity matches that passed the filter were more than the free slots
C3_Witness ==
  /\ Returned
  /\ \E t \in TypeSet :
       /\ Len(result.buckets[t]) = topK
       /\ HasSrc(result.buckets[t], "sequel")
       /\ HasSrc(result.buckets[t], "similarity")
       /\ Len(SimilarityRecs(task[t].sims, task[t].recs, t, userContentSet(t), 100))
            > topK - Len(task[t].recs)

\* C4: when sequel detection of a type yields at least perTypeCount
\* candidates, the bucket of the type is the first perTypeCount of them in
\* detection order, holds no similarity candidate, and no similarity
\* request was made.
C4_SequelPriority ==
  Returned =>
    \A t \in TypeSet :
      (task[t].phase = "done" /\ Len(task[t].recs) >= topK) =>
        /\ result.buckets[t] = SubSeq(task[t].recs, 1, topK)
        /\ ~HasSrc(result.buckets[t], "similarity")
        /\ task[t].nVec = 0

\* sequel detection found more candidates than the quota asks for
C4_Witness ==
  /\ Returned
  /\ topK >= 1
  /\ \E t \in TypeSet : task[t].phase = "done" /\ Len(task[t].recs) > topK
                        /\ Len(result.buckets[t]) = topK

\* C5: in a type bucket all sequel candidates come before all similarity
\* candidates: the bucket is the sequel list followed by similarity matches.
C5_SequelsFirst ==
  Returned =>
    \A t \in TypeSet :
      LET b == result.buckets[t]
          n == Len(task[t].recs)
      IN HasSrc(b, "similarity") =>
           /\ Len(b) >= n
           /\ SubSeq(b, 1, n) = task[t].recs
           /\ \A i \in 1..Len(b) : b[i].src = IF i <= n THEN "sequel" ELSE "similarity"

\* a returned bucket mixes both sources
C5_Witness ==
  /\ Returned
  /\ \E t \in TypeSet : /\ HasSrc(result.buckets[t], "sequel")
                        /\ HasSrc(result.buckets[t], "similarity")

\* C6: recommendById(X, topK) returns at most topK items and never X.
C6_ByIdExcludesItself ==
  (pc = "done" /\ call.fn = "recommendById") =>
    /\ Len(result.all) <= topK
    /\ \A i \in 1..Len(result.all) : result.all[i].id # call.itemId

\* the index returned topK + 1 matches with X among them, and topK items
\* were returned
C6_Witness ==
  /\ pc = "done" /\ call.fn = "recommendById"
  /\ topK >= 2
  /\ Len(IndexQuery(call.itemId, topK + 1)) = topK + 1
  /\ \E i \in 1..(topK + 1) : IndexQuery(call.itemId, topK + 1)[i].id = call.itemId
  /\ Len(result.all) = topK

\* C7: recommendForUser and recommendById never raise to their caller.
C7_NeverRaises == ~raised

\* a call returned although a step inside it raised up to the entry point's
\* own catch
C7_Witness ==
  /\ pc = "done"
  /\ ~raised
  /\ \E x \in injected : x[1] \in {"malformed", "byid"} /\ x[4] \in {0, -1}

LookupNull ==
  Len(userIds) > 0 /\ (userIds[1] # "u1" \/ <<"lookup", "", 0, 0>> \in injected)

ZeroConsumed ==
  /\ Len(userIds) > 0 /\ userIds[1] = "u1" /\ <<"lookup", "", 0, 0>> \notin injected
  /\ \A t \in TypeSet : Len(userListsDb[t]) = 0

\* C8: when the profile lookup returns null or the user has no consumed
\* item of any type, recommendForUser returns the empty result without
\* raising and no aggregation is started (no sequel query, no index query).
C8_EmptyProfileNoAggregation ==
  (Returned /\ (LookupNull \/ ZeroConsumed)) =>
    /\ result = EmptyResult
    /\ ~raised
    /\ \A t \in TypeSet : task[t] = IdleTask

\* the first user id has no lists document while the store holds the lists
\* of another user, and the call has returned
C8_Witness ==
  /\ Returned
  /\ Len(userIds) > 0 /\ userIds[1] = "u0"
  /\ userListsDb = FullProfile
  /\ injected = {}

InternalFailed(t) == \E x \in injected : x[1] = "internal" /\ x[2] = t

\* C9: when the aggregation of one type raises, that type's bucket is
\* empty and every other type's bucket is what its aggregation yields
\* without that failure.
C9_FailureIsolation ==
  Returned =>
    \A t \in TypeSet :
      InternalFailed(t) =>
        /\ result.buckets[t] = <<>>
        /\ \A u \in TypeSet \ {t} :
             result.buckets[u] = BucketAlone(u, {x \in injected : x[2] # t})

\* an aggregation raised after it had found sequel candidates, and another
\* type's bucket is not empty
C9_Witness ==
  /\ Returned
  /\ \E t \in TypeSet :
       /\ InternalFailed(t)
       /\ Len(task[t].recs) > 0
       /\ \E u \in TypeSet \ {t} : Len(result.buckets[u]) > 0

\* C10: for every interleaving and completion order of the four tasks the
\* flattened list is the movie, TV, anime and game buckets in that order,
\* and each bucket is the one its aggregation yields when run alone.
C10_DeterministicMerge ==
  Returned =>
    /\ result.all = result.buckets["movie"] \o result.buckets["tvseries"]
                    \o result.buckets["anime"] \o result.buckets["game"]
    /\ \A t \in TypeSet : result.buckets[t] = BucketAlone(t, injected)

\* the four tasks completed in the reverse of the fixed order and every
\* bucket is non-empty
C10_Witness ==
  /\ Returned
  /\ doneOrder = <<"game", "anime", "tvseries", "movie">>
  /\ \A t \in TypeSet : Len(result.buckets[t]) > 0

Scored == probe.done /\ probe.op = "calculateMetadataSimilarity"

\* the attributes compared for a type: <<field, by name, cast members kept>>
Compared(type) ==
  CASE type = "anime" -> {<<"genres", TRUE, NoCut>>, <<"demographics", TRUE, NoCut>>,
                          <<"themes", TRUE, NoCut>>, <<"studios", TRUE, NoCut>>}
    [] type = "movie" -> {<<"genres", FALSE, NoCut>>,
                          <<"production_companies", TRUE, NoCut>>, <<"actors", TRUE, 3>>}
    [] type = "tvseries" -> {<<"genres", FALSE, NoCut>>, <<"networks", TRUE, NoCut>>,
                             <<"production_companies", TRUE, NoCut>>,
                             <<"actors", TRUE, 5>>}
    [] type = "game" -> {<<"genres", FALSE, NoCut>>, <<"platforms", FALSE, NoCut>>,
                         <<"developers", FALSE, NoCut>>, <<"publishers", FALSE, NoCut>>}

\* the values of an item that enter the comparison of attribute a
ComparedValues(c, a) == Range(Take(getFieldArrayValues(c, a[1], a[2]), a[3]))

\* C11: for all items a, b and each content type the score lies in
\* [0.5, 0.99]; it is exactly 0.5 when no compared attribute has a non-empty
\* overlap; the base and the weighted contributions sum to at most 1 before
\* the cap, and the score never exceeds 0.99.
C11_ScoreRange ==
  Scored =>
    /\ probe.value >= 50 * JaccardUnit
    /\ probe.value <= 99 * JaccardUnit
    /\ (\A a \in Compared(probe.contentType) :
          ComparedValues(probe.content1, a) \cap ComparedValues(probe.content2, a) = {})
         => probe.value = 50 * JaccardUnit
    /\ MetadataScore(probe.content1, probe.content2, probe.contentType)
         <= 100 * JaccardUnit

\* two items whose compared attributes are all non-empty and identical were
\* scored: the sum before the cap is 1 and the score is 0.99
C11_Witness ==
  /\ Scored
  /\ \A a \in Compared(probe.contentType) :
       /\ ComparedValues(probe.content1, a) # {}
       /\ ComparedValues(probe.content1, a) = ComparedValues(probe.content2, a)
  /\ MetadataScore(probe.content1, probe.content2, probe.contentType) = 100 * JaccardUnit
  /\ probe.value = 99 * JaccardUnit

\* C12: compareArrays(A, B) = compareArrays(B, A) for all arrays, and
\* calculateMetadataSimilarity(a, b, type) = calculateMetadataSimilarity(b, a,
\* type) for all items, the truncated cast lists included.
C12_Symmetry == probe.done => probe.value = probe.swapped

\* two TV items were scored whose cast lists differ, one of them longer than
\* the 5 members kept, and the casts overlap
C12_Witness ==
  /\ Scored
  /\ probe.contentType = "tvseries"
  /\ Len(getFieldArrayValues(probe.content1, "actors", TRUE)) > 5
  /\ Len(getFieldArrayValues(probe.content2, "actors", TRUE)) = 5
  /\ probe.value > 50 * JaccardUnit
  /\ probe.value = probe.swapped

\* C13: compareArrays is the Jaccard index of the two arrays as sets: 1 for
\* a non-empty array and itself, 0 when either array is empty, otherwise
\* |A n B| / |A u B| over the distinct elements, whatever the order and the
\* multiplicity of the elements.
C13_Jaccard ==
  (probe.done /\ probe.op = "compareArrays") =>
    LET A == Range(probe.array1)
        B == Range(probe.array2)
    IN /\ (probe.array1 = <<>> \/ probe.array2 = <<>>) => probe.value = 0
       /\ (A = B /\ A # {}) => probe.value = JaccardUnit
       /\ (A # {} /\ B # {}) =>
            probe.value * Cardinality(A \cup B) = Cardinality(A \cap B) * JaccardUnit

\* two different arrays were compared, the first with a repeated element,
\* and the result is strictly between 0 and 1
C13_Witness ==
  /\ probe.done /\ probe.op = "compareArrays"
  /\ ~NoDup(probe.array1)
  /\ Range(probe.array1) # Range(probe.array2)
  /\ probe.value > 0
  /\ probe.value < JaccardUnit

Backoffs == {i \in 1..Len(slept) : slept[i].why = "backoff"}

LastSleep == IF slept = <<>> THEN "none" ELSE slept[Len(slept)].why

\* C14: with initialWait = 4400 the wait after failed attempt n is
\* 4400 * 1.5^(n-1) ms (4400, 6600, 9900 for attempts 1, 2, 3), whether the
\* failure is a rate-limit signal, a timeout signal or any other error.
C14_BackoffTiming ==
  \A i \in Backoffs :
    LET n == slept[i].attempt
    IN /\ slept[i].kind \in {"rate", "timeout", "other"}
       /\ slept[i].ms * Pow(2, n - 1) = 4400 * Pow(3, n - 1)
       /\ n = 1 => slept[i].ms = 4400
       /\ n = 2 => slept[i].ms = 6600
       /\ n = 3 => slept[i].ms = 9900

\* the upsert of a chunk failed a third time with an error that is neither
\* a rate limit nor a timeout, and withRetry waited 9900 ms
C14_Witness ==
  /\ ipc = "upsert"
  /\ attempt = 4
  /\ \E i \in Backoffs : /\ slept[i].attempt = 3
                          /\ slept[i].kind = "other"
                          /\ slept[i].ms = 9900

\* C15: a chunk whose processing fails 5 consecutive times is marked
\* processed (processed advances by the chunk size) without being upserted,
\* the failure counter is reset to 0 and ingestion goes on with the next
\* chunk; no chunk gets more than 5 processing attempts, and a success
\* resets the counter to 0.
C15_BatchSkip ==
  /\ [](tries <= 5)
  /\ [][/\ LastSleep' = "failed" =>
            IF tries = 5
            THEN /\ processed' = processed + Min(50, size - processed)
                 /\ processed \notin upserted'
                 /\ failedAttempts' = 0
                 /\ ipc' = "fetch"
            ELSE /\ processed' = processed
                 /\ failedAttempts' = tries
        /\ LastSleep' = "success" =>
            /\ failedAttempts' = 0
            /\ processed \in upserted'
            /\ processed' = processed + Min(50, size - processed)]_allVars

\* the first chunk of a collection of two chunks was skipped and the second
\* one was upserted after that
C15_Witness ==
  /\ size = 50 + PartialChunk
  /\ processed = size
  /\ upserted = {50}
  /\ failedAttempts = 0

\* C16: the ingestion of every collection that was started eventually ends,
\* whatever errors the chunk fetch, the embedding service and the vector
\* index raise and however long, provided every call and wait returns.
C16_AlwaysCompletes ==
  \A i \in 1..4 : (Len(started) = i) ~> (Len(ended) = i)

\* C17: the four content types are ingested in the order movie, tvseries,
\* anime, game, each started once and only after the previous one has
\* ended; after an error that ends the ingestion of a type (the document
\* count included) the next type is started, and the run never ends before
\* all four have been started and ended.
C17_SequentialIsolated ==
  /\ [](/\ started = SubSeq(<<"movie", "tvseries", "anime", "game">>, 1, Len(started))
        /\ ended = SubSeq(started, 1, Len(ended))
        /\ Len(started) - Len(ended) \in {0, 1})
  /\ [](ipc = "closed" /\ started # <<>> => Len(ended) = 4)
  /\ \A i \in 1..3 :
       (Len(ended) = i /\ outcome \in {"error", "thrown"}) ~> (Len(started) = i + 1)

\* the document count of the first collection failed, and a chunk of the
\* second collection is being processed
C17_Witness ==
  /\ Len(started) = 2
  /\ Len(ended) = 1
  /\ outcome = "error"
  /\ ipc = "embed"

\* the consumed item the sequel loop of type t is at
CurrentItem(t) == userData.details[t][task[t].i]

\* the loop of type t processes its current item in this step, and the
\* iteration does not fail
ProcessesItem(t) ==
  /\ pc = "fanout"
  /\ task[t].phase = "sequels"
  /\ task'[t].i = task[t].i + 1
  /\ injected' = injected

\* the candidates the step appends to the sequel list of type t
Contribution(t) == SubSeq(task'[t].recs, Len(task[t].recs) + 1, Len(task'[t].recs))

\* C18: findSequelsAndSeries yields at most 10 candidates in total and at
\* most 3 from any single consumed item, and once the total has reached 10
\* no further consumed item is processed and no further query is issued.
C18_SequelCaps ==
  /\ [](\A t \in TypeSet :
          /\ Len(task[t].recs) <= 10
          /\ task[t].phase = "sequels" => Len(task[t].recs) < 10)
  /\ [][\A t \in TypeSet :
          /\ Len(task'[t].recs) - Len(task[t].recs) <= 3
          /\ Len(task[t].recs) >= 10 =>
               task'[t].nSeq = task[t].nSeq /\ task'[t].i = task[t].i]_vars

\* the sequel list reached 10 candidates and the loop ended with a consumed
\* item left unprocessed
C18_Witness ==
  \E t \in TypeSet :
    /\ task[t].phase = "done"
    /\ Len(task[t].recs) = 10
    /\ task[t].i <= Len(userData.details[t])
    /\ task[t].nSeq < Len(userData.details[t])

\* C19: the candidates a consumed item contributes are the highest-scoring
\* of its unconsumed title matches, in non-increasing score order: no match
\* left out scores strictly higher than one that was kept.
C19_TopScoringKept ==
  [][\A t \in TypeSet :
       ProcessesItem(t) =>
         LET kept == Contribution(t)
             matches == FilteredSeriesContent(CurrentItem(t), t, userContentSet(t))
         IN /\ \A i \in 1..Len(kept) :
                 \E n \in 1..Len(matches) :
                   /\ kept[i].id = IdToString(matches[n])
                   /\ kept[i].score =
                        calculateMetadataSimilarity(CurrentItem(t), matches[n], t)
            /\ \A i, j \in 1..Len(kept) : i < j => kept[i].score >= kept[j].score
            /\ \A n \in 1..Len(matches) :
                 (\A i \in 1..Len(kept) : kept[i].id # IdToString(matches[n])) =>
                   \A i \in 1..Len(kept) :
                     kept[i].score >=
                       calculateMetadataSimilarity(CurrentItem(t), matches[n], t)]_vars

\* a consumed item with three unconsumed matches contributed one candidate
\* after an earlier item had contributed three in an order that is not the
\* order of the query
C19_Witness ==
  \E t \in TypeSet :
    /\ Len(task[t].recs) = 4
    /\ task[t].i = 3
    /\ task[t].recs[1].score > task[t].recs[3].score
    /\ task[t].recs[1].id # IdToString(
         FilteredSeriesContent(userData.details[t][1], t, userContentSet(t))[1])
    /\ task[t].recs[4].score >= task[t].recs[1].score

\* C20: a consumed item with at least 3 unconsumed title matches
\* contributes 3 candidates whatever earlier items contributed, as long as
\* the total cap of 10 is not reached.
C20_ThreePerItem ==
  [][\A t \in TypeSet :
       (/\ ProcessesItem(t)
        /\ Len(FilteredSeriesContent(CurrentItem(t), t, userContentSet(t))) >= 3
        /\ Len(task[t].recs) + 3 <= 10)
       => Len(Contribution(t)) = 3]_vars

(***************************************************************************)
(* The similarity search of a type, and the identity of a title.           *)
(***************************************************************************)
\* the failures injected into the similarity requests of type t
SeedFaults(t) == {x \in injected : x[1] = "seed" /\ x[2] = t}

\* C21: when sequel detection has found at least perTypeCount candidates for
\* a type, the similarity search of that type is skipped entirely: no seed
\* request (vector query and hydration lookups) is ever started for it.
C21_SimilaritySkipped ==
  \A t \in TypeSet :
    (task[t].phase \in {"seeds", "done"} /\ Len(task[t].recs) >= topK) =>
      /\ task[t].phase = "done"
      /\ task[t].nVec = 0
      /\ task[t].pending = {}
      /\ task[t].sims = <<>>
      /\ SeedFaults(t) = {}

\* exactly as many sequel candidates as asked for, and a seed whose vector
\* query would have had matches
C21_Witness ==
  /\ topK >= 1
  /\ \E t \in TypeSet :
       /\ task[t].phase = "done"
       /\ Len(task[t].recs) = topK
       /\ task[t].bucket = task[t].recs
       /\ ValidSampleIds(userData.details[t]) # <<>>
       /\ FilteredMatches(ValidSampleIds(userData.details[t])[1], 2) # <<>>

\* C22: the similarity seeds of a type are the first 3 consumed items of the
\* user's profile list (all of them when there are fewer), whatever the order
\* in which the repository returned the hydrated records.  Stated for lists
\* whose ids were all hydrated, and on the seeds as a set.
C22_SeedsInProfileOrder ==
  \A t \in TypeSet :
    (task[t].phase = "seeds" /\ Len(userData.details[t]) = Len(userData.ids[t])) =>
      Range(ValidSampleIds(userData.details[t])) = Range(Take(userData.ids[t], SampleSize))

\* the similarity search of type t has run to its end
Searched(t) ==
  /\ task[t].phase = "done"
  /\ task[t].nVec > 0
  /\ ~(\E x \in injected : x[1] = "internal" /\ x[2] = t)

\* the part of t's bucket after the sequel candidates
SimilarityPart(t) == SubSeq(task[t].bucket, Len(task[t].recs) + 1, Len(task[t].bucket))

\* the gathered matches of t's seeds, in seed order, that are of type t, not
\* consumed and not among the sequel candidates
Eligible(t) ==
  LET flat == Flat(task[t].sims)
  IN Filter(flat, {rec \in Range(flat) :
                     /\ rec.type = t
                     /\ rec.id \notin Range(userData.ids[t])
                     /\ rec.id \notin Range(Ids(task[t].recs))})

\* C23: every candidate of a type's bucket has that type, and the similarity
\* part of the bucket holds at most remaining = perTypeCount - #sequels
\* entries: the matches of another type, consumed or already among the
\* sequel candidates are removed before the truncation to remaining.
C23_TypedAndTruncated ==
  \A t \in TypeSet :
    /\ task[t].phase = "done" =>
         \A n \in 1..Len(task[t].bucket) : task[t].bucket[n].type = t
    /\ Searched(t) =>
         /\ Len(SimilarityPart(t)) <= topK - Len(task[t].recs)
         /\ SimilarityPart(t) = Take(Eligible(t), topK - Len(task[t].recs))

\* the similarity part is full although, before the last match kept, the
\* gathered matches hold one of another type, and they hold one that is
\* consumed or already among the sequel candidates
C23_Witness ==
  \E t \in TypeSet :
    LET flat == Flat(task[t].sims)
        part == SimilarityPart(t)
    IN /\ Searched(t)
       /\ Len(task[t].recs) >= 1
       /\ Len(part) = topK - Len(task[t].recs)
       /\ Len(part) >= 1
       /\ \E a, b, c \in 1..Len(flat) :
            /\ flat[a].type # t
            /\ flat[b].id \in Range(Ids(task[t].recs)) \cup Range(userData.ids[t])
            /\ flat[c] = part[Len(part)]
            /\ a < c

\* the failure injected into the request of t's seed s: 0 none, -1 the
\* vector query, j > 0 the hydration lookup of the j-th tagged match
SeedFault(t, s) ==
  LET hit == {x \in SeedFaults(t) : x[3] = s}
  IN IF hit = {} THEN 0 ELSE (CHOOSE x \in hit : TRUE)[4]

\* the topK of the requests of t's seeds
SeedK(t) == SeedTopK(topK - Len(task[t].recs), Len(ValidSampleIds(userData.details[t])))

\* what seed s of t contributes when nothing fails
Unfailed(t, s) == recommendById(ValidSampleIds(userData.details[t])[s], SeedK(t), 0)

\* what seed s of t contributes under its failure: nothing when the vector
\* query failed, and everything but the match whose lookup failed otherwise
Contributed(t, s) ==
  LET f == SeedFault(t, s)
      matches == FilteredMatches(ValidSampleIds(userData.details[t])[s], SeedK(t))
      tagged == Filter(matches, {m \in Range(matches) : m.tag # ""})
      full == Unfailed(t, s)
  IN IF f = -1 THEN <<>>
     ELSE IF f \notin 1..Len(tagged) THEN full
     ELSE Filter(full, {c \in Range(full) : c.id # tagged[f].id})

\* the requests of t's seeds that have completed
Completed(t) == (1..Len(task[t].sims)) \ task[t].pending

\* C24 as stated: a seed whose vector query or hydration fails contributes an
\* empty list, and the bucket is still the sequel candidates followed by the
\* filtered matches of the other seeds.
C24_FailedSeedEmpty ==
  \A t \in TypeSet : \A s \in Completed(t) :
    SeedFault(t, s) # 0 =>
      /\ task[t].sims[s] = <<>>
      /\ Searched(t) =>
           task[t].bucket =
             task[t].recs \o
             Take(LET others == Flat([n \in 1..Len(task[t].sims) |->
                                        IF n = s THEN <<>> ELSE Unfailed(t, n)])
                  IN Filter(others, {rec \in Range(others) :
                                       /\ rec.type = t
                                       /\ rec.id \notin Range(userData.ids[t])
                                       /\ rec.id \notin Range(Ids(task[t].recs))}),
                  topK - Len(task[t].recs))

\* C24 (amended): a seed whose vector query fails contributes an empty
\* list; a seed one of whose hydration lookups fails loses that match only;
\* every other seed contributes what it contributes without failures, and
\* the bucket is the sequel candidates followed by the first remaining
\* filtered matches of what the seeds contributed.  Stated on the state in
\* which the call has returned, where every seed's contribution is kept.
C24_SeedIsolation ==
  Returned =>
    \A t \in TypeSet :
      SeedFaults(t) # {} =>
        /\ \A s \in Completed(t) : task[t].sims[s] = Contributed(t, s)
        /\ Searched(t) =>
             task[t].bucket = task[t].recs \o Take(Eligible(t), topK - Len(task[t].recs))

\* a hydration lookup of one seed failed: the seed still contributes its
\* other matches, and the bucket holds sequel candidates and matches of
\* both that seed and another one
C24_Witness ==
  \E t \in TypeSet : \E s, n \in Completed(t) :
    /\ Searched(t)
    /\ SeedFault(t, s) > 0
    /\ task[t].sims[s] # <<>>
    /\ task[t].sims[s] # Unfailed(t, s)
    /\ n # s
    /\ task[t].sims[n] # <<>>
    /\ Len(task[t].recs) >= 1
    /\ Len(task[t].bucket) > Len(task[t].recs)

\* the indices of t's consumed items whose processing was made to fail
FailedItems(t) == {x[3] : x \in {y \in injected : y[1] = "item" /\ y[2] = t}}

\* the candidates after the first n consumed items of t, the items in J
\* being left out
SkipFold(t, n, J) ==
  LET contentData == userData.details[t]
      F[k \in 0..n] ==
        IF k = 0 THEN <<>>
        ELSE IF k \in J THEN F[k-1]
        ELSE ProcessItem(F[k-1], contentData[k], t, Range(userData.ids[t])).recs
  IN F[n]

\* C25: if processing one consumed item raises during sequel detection, the
\* item is skipped: the candidates are those of the other items processed
\* so far, in order, and the loop goes on to the remaining items (it ends
\* only after the last item or at the total cap).  Stated on the state in
\* which the call has returned.
C25_ItemIsolation ==
  Returned =>
    \A t \in TypeSet :
      FailedItems(t) # {} =>
        /\ task[t].recs = SkipFold(t, task[t].i - 1, FailedItems(t))
        /\ task[t].phase # "sequels" =>
             \/ task[t].i - 1 = Len(userData.details[t])
             \/ Len(task[t].recs) >= TotalSequelCap

\* an item failed after earlier items had contributed, and a later item
\* contributed after it
C25_Witness ==
  \E t \in TypeSet : \E j \in FailedItems(t) :
    /\ j >= 2
    /\ task[t].phase = "done"
    /\ SkipFold(t, j - 1, {}) # <<>>
    /\ Len(task[t].recs) > Len(SkipFold(t, j - 1, {}))
    /\ SubSeq(task[t].recs, 1, Len(SkipFold(t, j - 1, {}))) = SkipFold(t, j - 1, {})

(***************************************************************************)
(* The title parser on its own: extractSeriesInfo on one title, and the    *)
(* iteration of findSequelsAndSeries on an item with that title in the     *)
(* movies collection.  A title is a list of tokens between separators; an  *)
(* empty first token stands for a title that starts with a separator.      *)
(***************************************************************************)
MaxTitleLen == 3

\* a long word, a short one, one of exactly 4 characters, a number, a roman
\* numeral, a word made of numeral letters, a season word, a franchise word
TitleWords == {"rocky", "up", "saga", "2", "iv", "dim", "season", "returns"}

Titles ==
  Arrays(TitleWords, MaxTitleLen)
    \cup {<<"">> \o a : a \in Arrays(TitleWords, MaxTitleLen - 1) \ {<<>>}}

TitleProbe(t, d, n, q, r) ==
  [op |-> "extractSeriesInfo", title |-> t, done |-> d, seriesName |-> n,
   queried |-> q, recs |-> r]

TitleInit ==
  /\ probe \in {TitleProbe(t, FALSE, <<>>, 0, <<>>) : t \in Titles}
  /\ IngestOff
  /\ RecommendOff

ExtractCall ==
  /\ probe.op = "extractSeriesInfo"
  /\ ~probe.done
  /\ LET step == ProcessItem(<<>>, Doc("q1", TRUE, probe.title, NoAttrs), "movie", {})
     IN probe' = TitleProbe(probe.title, TRUE, extractSeriesInfo(probe.title),
                            step.queried, step.recs)
  /\ UNCHANGED <<vars, ingestVars>>

TitleNext == ExtractCall

TitleSpec == TitleInit /\ [][TitleNext]_allVars

\* a pattern's token stands at index i of the probed title
NumeralAt(i) == i \in 2..Len(probe.title) /\ IsNumeral(probe.title[i])
SeasonAt(i) ==
  /\ i \in 2..(Len(probe.title) - 1)
  /\ probe.title[i] \in SeasonWords
  /\ IsNumeral(probe.title[i + 1])
FranchiseAt(i) == i \in 2..Len(probe.title) /\ probe.title[i] \in FranchiseWords

AnyPattern == \E i \in 1..Len(probe.title) : NumeralAt(i) \/ SeasonAt(i) \/ FranchiseAt(i)

\* the tokens before index i are all empty
EmptyPrefix(i) == \A j \in 1..(i - 1) : probe.title[j] = ""

\* the first index at which the token of the first pattern that matches, in
\* the order numeral, season, franchise, stands (0: no pattern matches)
Deciding ==
  LET first(S) == CHOOSE i \in S : \A j \in S : i <= j
      numerals == {i \in 1..Len(probe.title) : NumeralAt(i)}
      seasons == {i \in 1..Len(probe.title) : SeasonAt(i)}
      franchises == {i \in 1..Len(probe.title) : FranchiseAt(i)}
  IN IF numerals # {} THEN first(numerals)
     ELSE IF seasons # {} THEN first(seasons)
     ELSE IF franchises # {} THEN first(franchises)
     ELSE 0

\* C26: when none of the three patterns matches, the whole title is the
\* series identity exactly when it is longer than 4 characters; and an item
\* from which no identity is derived (no pattern and at most 4 characters, a
\* matched pattern with an empty prefix, or an empty title) yields no
\* candidates and no series query.
C26_WholeTitleFallback ==
  probe.done =>
    /\ ~AnyPattern =>
         /\ TitleLength(probe.title) > 4 => probe.seriesName = probe.title
         /\ TitleLength(probe.title) <= 4 => probe.seriesName = <<>>
    /\ probe.seriesName = <<>> <=>
         \/ ~AnyPattern /\ TitleLength(probe.title) <= 4
         \/ AnyPattern /\ EmptyPrefix(Deciding)
         \/ probe.title = <<>>
    /\ probe.seriesName = <<>> => probe.queried = 0 /\ probe.recs = <<>>

\* a title of exactly 4 characters that matches no pattern
C26_Witness ==
  /\ probe.done
  /\ ~AnyPattern
  /\ TitleLength(probe.title) = 4
  /\ probe.seriesName = <<>>
  /\ probe.queried = 0

\* the tokens of the probed title before index i, trimmed
PrefixBefore(i) == Trim(SubSeq(probe.title, 1, i - 1))

\* C27: the patterns are tried in the order numeral, Season/Part/Chapter N,
\* franchise word, and the identity is the prefix the first matching one
\* captures.  A title the Season pattern matches is matched by the numeral
\* pattern too, so its identity is never the Season pattern's prefix: for
\* <name> Season <N> it is <name> Season.
C27_PatternPriority ==
  probe.done =>
    LET title == probe.title
        numerals == {i \in 1..Len(title) : NumeralAt(i)}
        seasons == {i \in 1..Len(title) : SeasonAt(i)}
        franchises == {i \in 1..Len(title) : FranchiseAt(i)}
    IN /\ \A i \in numerals :
            (\A j \in numerals : i <= j) => probe.seriesName = PrefixBefore(i)
       /\ \A i \in seasons :
            /\ numerals # {}
            /\ probe.seriesName # PrefixBefore(i)
            /\ (numerals = {i + 1} /\ i + 1 = Len(title)) =>
                 probe.seriesName = Trim(SubSeq(title, 1, i))
       /\ \A i \in franchises :
            (numerals = {} /\ \A j \in franchises : i <= j) =>
               probe.seriesName = PrefixBefore(i)

\* a title <name> Season <N>: its identity ends with the season word
C27_Witness ==
  /\ probe.done
  /\ Len(probe.title) = 3
  /\ probe.title[1] = "rocky"
  /\ SeasonAt(2)
  /\ probe.seriesName = <<"rocky", "season">>
  /\ probe.queried = 1

\* C28: fetchContentDetails looks every consumed id up under both the native
\* key form and the derived 24-hex object-id form, so a record stored under a
\* string key that is also a valid 24-hex string is resolved: every consumed
\* id the collection holds a record for, in either form, is hydrated.
C28_BothKeyForms ==
  \A t \in TypeSet : \A n \in 1..Len(userData.ids[t]) :
    (/\ <<"hydrate", t, 0, 0>> \notin injected
     /\ \E d \in Range(Collection(t)) : d.key = userData.ids[t][n])
    => \E k \in 1..Len(userData.details[t]) :
         userData.details[t][k].key = userData.ids[t][n]

\* recommendById, called as an entry point, has returned
ByIdReturned == pc = "done" /\ call.fn = "recommendById"

\* the failure injected into that call (0: none)
ByIdFault ==
  LET hit == {x \in injected : x[1] = "byid"}
  IN IF hit = {} THEN 0 ELSE (CHOOSE x \in hit : TRUE)[4]

\* the repository holds no record for the match: none under the raw key, and
\* none under the object-id form or the id does not convert
Unresolvable(m) ==
  LET docs == Range(Collection(m.tag))
  IN /\ ~(\E d \in docs : d.key = m.id /\ ~d.oid)
     /\ \/ ~IsObjectIdHex(m.id)
        \/ ~(\E d \in docs : d.key = m.id /\ d.oid)

InRetry == ipc \in {"fetch", "embed", "upsert"}
MaxRetriesOf(p) == IF p = "fetch" THEN FetchRetries ELSE DefaultRetries

\* the step calls fn and it fails, and withRetry calls fn again
CalledAgain ==
  /\ ipc' = ipc
  /\ attempt' = attempt + 1
  /\ attempt < MaxRetriesOf(ipc)
  /\ Len(slept') = 1
  /\ slept'[1].why = "backoff"

\* the step calls fn and it succeeds: withRetry returns and its caller goes
\* on, fn is not called again
RetryReturned ==
  /\ \A i \in 1..Len(slept') : slept'[i].why = "success"
  /\ \/ ipc = "fetch" /\ ipc' \in {"embed", "loop"}
     \/ ipc = "embed" /\ ipc' = "upsert"
     \/ ipc = "upsert" /\ ipc' = "fetch" /\ processed' > processed
  /\ attempt' \in {0, 1}

\* the step calls fn, it fails and withRetry raises: the caller's catch runs
RetryRaised ==
  /\ attempt = MaxRetriesOf(ipc)
  /\ slept' # <<>>
  /\ slept'[Len(slept')].why = (IF ipc = "fetch" THEN "fetch" ELSE "failed")
  /\ \A i \in 1..(Len(slept') - 1) :
       slept'[i].why = "backoff" /\ slept'[i].kind \in {"rate", "timeout"}
  /\ ipc' = "fetch"
  /\ attempt' = 1

\* C30: withRetry(fn, maxRetries) calls fn at most maxRetries times; the first
\* call that succeeds ends it, fn is not called again; and once maxRetries
\* calls have failed, whatever their errors, it raises to its caller.
C30_RetryBound ==
  [][InRetry =>
       /\ attempt \in 1..MaxRetriesOf(ipc)
       /\ CalledAgain \/ RetryReturned \/ RetryRaised
       /\ attempt = MaxRetriesOf(ipc) => ~CalledAgain]_allVars

\* the fifth call of an embedding or upsert request failed on a rate limit:
\* withRetry slept and raised, and the chunk's failure was counted
C30_Witness ==
  /\ ipc = "fetch"
  /\ Len(slept) = 2
  /\ slept[1].why = "backoff"
  /\ slept[1].attempt = DefaultRetries
  /\ slept[1].kind = "rate"
  /\ slept[2].why = "failed"
  /\ failedAttempts >= 1

(***************************************************************************)
(* The waits, the order and the bookkeeping of the ingestion.              *)
(***************************************************************************)
\* the step is the catch around processBatch: the chunk's processing failed
ChunkFailed == ipc \in {"embed", "upsert"} /\ slept' # <<>>
               /\ slept'[Len(slept')].why = "failed"

\* the wait of that catch
WaitAfterFailure == slept'[Len(slept')].ms

\* C31 as stated: after the k-th consecutive failure of a chunk, k = 1..5,
\* ingestCollection waits 5000 * k ms, k being the counter after its
\* increment for that failure.
C31_WaitGrowsToFive ==
  [][ChunkFailed => WaitAfterFailure = 5000 * (failedAttempts + 1)]_allVars

\* C31 (amended): after the k-th consecutive failure of a chunk, k = 1..4,
\* the counter is k and ingestCollection waits 5000 * k ms before it tries
\* the same chunk again; after the 5th the chunk is skipped, the counter is
\* reset and the wait is 5000 * 0 = 0 ms.
C31_WaitGrowsToFour ==
  [][ChunkFailed =>
       LET k == failedAttempts + 1
       IN /\ k \in 1..5
          /\ k <= 4 => /\ WaitAfterFailure = 5000 * k
                       /\ failedAttempts' = k
                       /\ processed' = processed
          /\ k = 5 => /\ WaitAfterFailure = 0
                      /\ failedAttempts' = 0
                      /\ processed' = processed + BatchLength]_allVars

\* the fourth consecutive failure of a chunk: a wait of 20 s
C31_Witness ==
  /\ ipc = "fetch"
  /\ failedAttempts = 4
  /\ slept # <<>>
  /\ slept[Len(slept)] = Sleep("failed", 20000, 0, "")

(***************************************************************************)
(* The ingestion of src/index.js: a cursor over the collection, one        *)
(* embedding request per document, an upsert every BATCH_SIZE vectors and  *)
(* one for the rest.  No retry: an error leaves ingestCollection and is    *)
(* caught by main, which goes on with the next collection.                 *)
(***************************************************************************)
\* buildText(doc, collName) of the n-th document of a collection
DocText(collName, n) == <<collName, n>>

\* doc._id.toString() of the n-th document of a collection
DocId(collName, n) == <<collName, n>>

\* data[i].embedding of the answer to a request whose input is the sequence
\* of texts `input`
Embedding(input, i) == [of |-> input[i]]

\* one vector handed to pineconeIndex.upsert
Vector(id, values, contentType) ==
  [id |-> id, values |-> values, type |-> contentType]

NoUpsert == [vectors |-> <<>>, requests |-> <<>>]

CursorProbe(p, c, s, n, b, q, u) ==
  [op |-> "ingestCursor", pc |-> p, c |-> c, size |-> s, processed |-> n,
   batch |-> b, requests |-> q, upserted |-> u]

CursorInit ==
  /\ probe = CursorProbe("main", 1, 0, 0, <<>>, <<>>, NoUpsert)
  /\ IngestOff
  /\ RecommendOff

\* main: the loop over collections, and ingestCollection up to its loop
CursorStart ==
  /\ probe.op = "ingestCursor"
  /\ probe.pc = "main"
  /\ probe.c <= Len(collections)
  /\ \E s \in SizeSet :
       probe' = CursorProbe("hasNext", probe.c, s, 0, <<>>, <<>>, NoUpsert)
  /\ UNCHANGED <<vars, ingestVars>>

\* the collection is left, by return or by an error main catches
CursorLeave == CursorProbe("main", probe.c + 1, 0, 0, <<>>, <<>>, NoUpsert)

\* one iteration of the while loop up to the batch test: cursor.next(),
\* processed++, the embedding request for this document alone and the push
\* of its vector
CursorEmbed ==
  /\ probe.op = "ingestCursor"
  /\ probe.pc = "hasNext"
  /\ probe.processed < probe.size
  /\ \E ok \in BOOLEAN :
       LET collName == collections[probe.c][1]
           contentType == collections[probe.c][2]
           n == probe.processed + 1
           input == <<DocText(collName, n)>>
           batch == Append(probe.batch,
                           Vector(DocId(collName, n), Embedding(input, 1),
                                  contentType))
       IN probe' = IF ok
                   THEN CursorProbe(IF Len(batch) >= BATCH_SIZE
                                    THEN "upsert" ELSE "hasNext",
                                    probe.c, probe.size, n, batch,
                                    Append(probe.requests, input), NoUpsert)
                   ELSE CursorLeave
  /\ UNCHANGED <<vars, ingestVars>>

\* the cursor is exhausted: the final batch if there is one, else the return
CursorExhausted ==
  /\ probe.op = "ingestCursor"
  /\ probe.pc = "hasNext"
  /\ probe.processed = probe.size
  /\ probe' = IF probe.batch # <<>>
              THEN [probe EXCEPT !.pc = "final", !.upserted = NoUpsert]
              ELSE CursorLeave
  /\ UNCHANGED <<vars, ingestVars>>

\* pineconeIndex.upsert(batch), of a full batch inside the loop or of the
\* final batch after it
CursorUpsert ==
  /\ probe.op = "ingestCursor"
  /\ probe.pc \in {"upsert", "final"}
  /\ \E ok \in BOOLEAN :
       probe' = IF ok
                THEN CursorProbe(IF probe.pc = "final" THEN "return"
                                 ELSE "hasNext",
                                 probe.c, probe.size, probe.processed, <<>>,
                                 <<>>,
                                 [vectors |-> probe.batch,
                                  requests |-> probe.requests])
                ELSE CursorLeave
  /\ UNCHANGED <<vars, ingestVars>>

\* ingestCollection returns after its final upsert
CursorReturn ==
  /\ probe.op = "ingestCursor"
  /\ probe.pc = "return"
  /\ probe' = CursorLeave
  /\ UNCHANGED <<vars, ingestVars>>

\* main: the loop is over, mongo.close()
CursorClose ==
  /\ probe.op = "ingestCursor"
  /\ probe.pc = "main"
  /\ probe.c > Len(collections)
  /\ probe' = [probe EXCEPT !.pc = "closed"]
  /\ UNCHANGED <<vars, ingestVars>>

CursorNext ==
  \/ CursorStart
  \/ CursorEmbed
  \/ CursorExhausted
  \/ CursorUpsert
  \/ CursorReturn
  \/ CursorClose

CursorSpec == CursorInit /\ [][CursorNext]_allVars

\* an upsert has just been written by the ingestion of src/index.js
CursorUpserted == probe.op = "ingestCursor" /\ probe.upserted.vectors # <<>>

\* C32: on every ingestion path the texts of a written chunk went to the
\* embedding service in one request that carries them all, the i-th vector
\* of the chunk has the i-th record's id and the i-th embedding of that
\* request, every vector is tagged with the content type of the collection
\* being ingested, and the chunk is written by one upsert.  Here for the
\* path of src/index.js.
C32_OneBatchedRequest ==
  CursorUpserted =>
    LET u == probe.upserted
        collName == collections[probe.c][1]
        first == probe.processed - Len(u.vectors)
    IN /\ Len(u.requests) = 1
       /\ Len(u.requests[1]) = Len(u.vectors)
       /\ \A i \in 1..Len(u.vectors) :
            /\ u.vectors[i].id = DocId(collName, first + i)
            /\ u.vectors[i].values = Embedding(u.requests[1], i)
            /\ u.vectors[i].type = collections[probe.c][2]

\* the step ends the ingestion of the current content type
TypeEnds == Len(ended') > Len(ended)

\* C33: per content type the steps go streaming, batch-ready, embedding,
\* upserting, streaming.  The embedding of a chunk starts from a fetch that
\* returned records; its upsert starts only when the embedding call of the
\* same attempt returned, and a failed attempt starts over with the fetch;
\* the offset moves on only by a successful upsert or by the skip; and the
\* type ends only as completed, by a fetch that returned no record, or as
\* aborted, before the first fetch.
C33_StepOrder ==
  [][/\ (ipc # "embed" /\ ipc' = "embed") => ipc = "fetch" /\ BatchLength > 0
     /\ (ipc # "upsert" /\ ipc' = "upsert") =>
          /\ ipc = "embed"
          /\ slept' = <<>>
          /\ tries' = tries /\ failedAttempts' = failedAttempts
     /\ (ipc = "upsert" /\ ipc' = "upsert") =>
          /\ attempt' = attempt + 1
          /\ tries' = tries /\ failedAttempts' = failedAttempts
     /\ ChunkFailed => ipc' = "fetch"
     /\ (cidx' = cidx /\ processed' # processed) =>
          /\ processed' = processed + BatchLength
          /\ ipc' = "fetch"
          /\ \/ ipc = "upsert" /\ upserted' = upserted \cup {processed}
             \/ ChunkFailed /\ failedAttempts + 1 = SkipAfter
     /\ TypeEnds =>
          \/ outcome' = "completed" /\ ipc = "fetch" /\ processed = size
          \/ outcome' \in {"error", "thrown"} /\ ipc = "loop"]_allVars

\* a collection of two chunks is completed: the first chunk was upserted and
\* the second one skipped
C33_Witness ==
  /\ ipc = "loop"
  /\ outcome = "completed"
  /\ size > BATCH_SIZE
  /\ processed = size
  /\ upserted = {0}

(***************************************************************************)
(* Unknown content types.                                                  *)
(***************************************************************************)
\* the matches recommendById hydrates whose type tag is none of the four
UnknownTypeMatches ==
  LET matches == FilteredMatches(call.itemId, topK)
  IN {n \in 1..Len(matches) :
        matches[n].tag # "" /\ ~KnownType(matches[n].tag)}

\* C34: an unknown content type is raised to the caller: a recommendById
\* call that hydrates a match whose type is none of movie, tvseries, anime,
\* game ends by raising, not by returning a list without that match.
C34_UnknownTypeRaises ==
  (ByIdReturned /\ ByIdFault = 0 /\ UnknownTypeMatches # {}) => raised

(***************************************************************************)
(* The type tags written by the ingestion and read by the recommenders.    *)
(***************************************************************************)
\* what stands for the error getCollectionName throws
UnknownContentType == "Unknown content type"

\* getCollectionName of recommendById's module, naming tvseries' collection
\* after its tag
getCollectionName_FromTag(type) ==
  CASE type = "movie" -> "movies"
    [] type = "tvseries" -> "tvseries"
    [] type = "anime" -> "animes"
    [] type = "game" -> "games"
    [] OTHER -> UnknownContentType

\* getCollectionName of recommendById's module
getCollectionName(type) ==
  CASE type = "movie" -> "movies"
    [] type = "tvseries" -> "tv-series"
    [] type = "anime" -> "animes"
    [] type = "game" -> "games"
    [] OTHER -> UnknownContentType

\* getCollectionName of recommendForUser's module
getCollectionNameOfUserModule(type) ==
  CASE type = "movie" -> "movies"
    [] type = "tvseries" -> "tv-series"
    [] type = "anime" -> "animes"
    [] type = "game" -> "games"
    [] OTHER -> UnknownContentType

\* a collection is being ingested or has been
Ingesting == cidx \in 1..Len(collections)

\* C35: the tag the ingestion writes on the vectors of a collection maps
\* back, through getCollectionName of either recommender, to the collection
\* the records were read from, and no other of the four types maps to that
\* collection.
C35_TagRoundTrip ==
  Ingesting =>
    LET collName == collections[cidx][1]
        contentType == collections[cidx][2]
    IN /\ contentType \in TypeSet
       /\ getCollectionName(contentType) = collName
       /\ getCollectionNameOfUserModule(contentType) = collName
       /\ \A t \in TypeSet :
            (getCollectionName(t) = collName
             \/ getCollectionNameOfUserModule(t) = collName) => t = contentType

\* a chunk of the last collection has been written with its tag
C35_Witness ==
  /\ cidx = Len(collections)
  /\ started = Types
  /\ upserted # {}
  /\ ipc = "fetch"

\* the records of the chunk fetched at offset o
ChunkAt(o) == (o + 1)..Min(o + BATCH_SIZE, size)

\* the step writes the current chunk successfully
ChunkUpserted == ipc = "upsert" /\ ipc' = "fetch" /\ ~ChunkFailed

\* the step skips the current chunk
ChunkSkipped == ChunkFailed /\ failedAttempts + 1 = SkipAfter

\* C36: in the ingestion of one collection the offset never decreases and
\* moves only by the chunk fetched at it, when that chunk is written or
\* skipped; a chunk is written at most once and shares no record with a
\* chunk written before; the offset never passes the number of records and
\* equals it when the collection is completed, so every record was in
\* exactly one chunk that was written or skipped.
C36_EachRecordOnce ==
  [][cidx' = cidx =>
       /\ processed' >= processed
       /\ processed' <= size
       /\ processed' # processed =>
            /\ ChunkUpserted \/ ChunkSkipped
            /\ processed' = processed + Cardinality(ChunkAt(processed))
            /\ ChunkAt(processed) # {}
       /\ ChunkUpserted =>
            /\ upserted' = upserted \cup {processed}
            /\ processed \notin upserted
            /\ \A o \in upserted : ChunkAt(o) \cap ChunkAt(processed) = {}
       /\ ~ChunkUpserted => upserted' = upserted
       /\ \A o \in upserted' : o % BATCH_SIZE = 0 /\ o < processed'
       /\ (TypeEnds /\ outcome' = "completed") =>
            /\ processed = size
            /\ processed' = size]_allVars

\* a collection of more than one chunk is completed with every chunk written
C36_Witness ==
  /\ outcome = "completed"
  /\ ipc = "loop"
  /\ size > BATCH_SIZE
  /\ processed = size
  /\ Cardinality(upserted) * BATCH_SIZE >= size

\* the step performs a back-off wait of withRetry
BackoffWait == \E i \in 1..Len(slept') : slept'[i].why = "backoff"

\* C37: every back-off wait of withRetry is followed by another call of the
\* wrapped function: withRetry does not wait after its last permitted
\* attempt, whatever the error.
C37_WaitThenCall ==
  [][(InRetry /\ BackoffWait) =>
       /\ attempt < MaxRetriesOf(ipc)
       /\ ipc' = ipc
       /\ attempt' = attempt + 1]_allVars

\* the step is the catch around the chunk fetch: withRetry(fn, 3) raised
FetchGaveUp == ipc = "fetch" /\ slept' # <<>>
               /\ slept'[Len(slept')].why \in {"fetch", "failed"}

\* C38: when the fetch of a chunk fails after its 3 calls, ingestCollection
\* leaves the processed count, the consecutive-failure counter and what was
\* written unchanged, waits 5 s and fetches at the same offset again; no
\* step of the fetch moves the offset or the counter, so a chunk is never
\* skipped because of fetch failures.
C38_FetchFailureFrame ==
  [][(ipc = "fetch" /\ cidx' = cidx) =>
       /\ processed' = processed
       /\ failedAttempts' = failedAttempts
       /\ upserted' = upserted
       /\ FetchGaveUp =>
            /\ attempt = FetchRetries
            /\ slept'[Len(slept')] = Sleep("fetch", 5000, 0, "")
            /\ ipc' = "fetch"
            /\ attempt' = 1
            /\ tries' = tries
            /\ ended' = ended]_allVars

\* the fetch of the second chunk, which has failed before in processBatch,
\* gave up: the counter and the offset are as they were
C38_Witness ==
  /\ ipc = "fetch"
  /\ LastSleep = "fetch"
  /\ attempt = 1
  /\ processed = BATCH_SIZE
  /\ failedAttempts >= 1

(***************************************************************************)
(* The shared MongoClient of recommendById's module under the concurrent   *)
(* lookups of getMongoDBDocs.  The map over the matches runs every         *)
(* fetchFromMongoDB up to its first await before any awaited call          *)
(* settles: the test of the connection and the call of connect are one     *)
(* synchronous step per lookup, in the order of the matches.               *)
(***************************************************************************)
\* the matches getMongoDBDocs looks up: those with a type tag
TaggedMatches(itemId, k) ==
  LET matches == FilteredMatches(itemId, k)
  IN Filter(matches, {item \in Range(matches) : item.tag # ""})

\* state of the client and of the lookups: whether topology.isConnected(),
\* the connect calls issued and those not yet settled, the next lookup the
\* map starts, and each lookup's position
ConnectProbe(id, k, c, n, f, nx, l, r) ==
  [op |-> "getMongoDBDocs", itemId |-> id, topK |-> k, connected |-> c,
   connects |-> n, inFlight |-> f, next |-> nx, lookup |-> l, results |-> r]

ConnectInit ==
  /\ probe \in {ConnectProbe(id, k, c, 0, 0, 1,
                             [i \in 1..Len(TaggedMatches(id, k)) |-> "pending"],
                             <<>>) :
                  id \in ItemIds, k \in 1..MaxTopK, c \in BOOLEAN}
  /\ IngestOff
  /\ RecommendOff

Lookups == DOMAIN probe.lookup

\* fetchFromMongoDB up to its first await, for the next match of the map:
\* the test of the connection and, when it is not connected, the call of
\* mongoClient.connect(); otherwise getCollectionName and the first findOne
FetchStart ==
  /\ probe.op = "getMongoDBDocs"
  /\ probe.next \in Lookups
  /\ LET i == probe.next
         type == TaggedMatches(probe.itemId, probe.topK)[i].tag
     IN probe' =
          IF ~probe.connected
          THEN [probe EXCEPT !.lookup[i] = "connect",
                             !.connects = @ + 1,
                             !.inFlight = @ + 1,
                             !.next = @ + 1]
          ELSE [probe EXCEPT !.lookup[i] = IF KnownType(type) THEN "findOne"
                                           ELSE "null",
                             !.next = @ + 1]
  /\ UNCHANGED <<vars, ingestVars>>

\* the map has started every lookup: Promise.all awaits them
Awaiting == probe.op = "getMongoDBDocs" /\ probe.next \notin Lookups

\* a connect call settles: the client is connected and the lookup goes on,
\* or the call fails and the lookup's catch returns null
ConnectSettles ==
  /\ Awaiting
  /\ \E i \in Lookups, ok \in BOOLEAN :
       /\ probe.lookup[i] = "connect"
       /\ LET type == TaggedMatches(probe.itemId, probe.topK)[i].tag
          IN probe' =
               IF ok
               THEN [probe EXCEPT !.connected = TRUE,
                                  !.inFlight = @ - 1,
                                  !.lookup[i] = IF KnownType(type)
                                                THEN "findOne" ELSE "null"]
               ELSE [probe EXCEPT !.inFlight = @ - 1, !.lookup[i] = "null"]
  /\ UNCHANGED <<vars, ingestVars>>

\* the findOne calls of a lookup settle: the record, or null
FindOneSettles ==
  /\ Awaiting
  /\ \E i \in Lookups, fails \in BOOLEAN :
       /\ probe.lookup[i] = "findOne"
       /\ LET item == TaggedMatches(probe.itemId, probe.topK)[i]
              doc == fetchFromMongoDB(item.id, item.tag, fails)
          IN probe' = [probe EXCEPT !.lookup[i] = IF doc # <<>> THEN "doc"
                                                  ELSE "null"]
  /\ UNCHANGED <<vars, ingestVars>>

\* every lookup has settled: Promise.all resolves and the nulls are dropped
AllSettled ==
  /\ Awaiting
  /\ probe.results = <<>>
  /\ Lookups # {}
  /\ \A i \in Lookups : probe.lookup[i] \in {"doc", "null"}
  /\ LET tagged == TaggedMatches(probe.itemId, probe.topK)
         F[i \in 0..Len(tagged)] ==
           IF i = 0 THEN <<>>
           ELSE IF probe.lookup[i] = "doc" THEN Append(F[i-1], tagged[i].id)
           ELSE F[i-1]
     IN probe' = [probe EXCEPT !.results = <<"resolved", F[Len(tagged)]>>]
  /\ UNCHANGED <<vars, ingestVars>>

ConnectNext ==
  \/ FetchStart
  \/ ConnectSettles
  \/ FindOneSettles
  \/ AllSettled

ConnectSpec == ConnectInit /\ [][ConnectNext]_allVars

\* C39: connect is called on the shared client only when it is not
\* connected, and at most one connect is issued, and at most one is in
\* flight, even when several lookups of one recommendById call run
\* concurrently and find the client not yet connected.
C39_OneConnect ==
  probe.op = "getMongoDBDocs" =>
    /\ probe.connects <= 1
    /\ probe.inFlight <= 1

====
